---- MODULE Spec2Model ----
(***************************************************************************)
(* A model of the block/connection graph engine and of its event log:      *)
(*   src/unnamed/part_000        Blockly.Workspace                          *)
(*   src/core/block.js           Blockly.Block                              *)
(*   src/core/events_abstract.js Blockly.Events.Abstract                    *)
(*   src/core/block_dragger.js   Blockly.BlockDragger                       *)
(* Blockly.Events (fire, filter, setGroup, enable/disable), the event      *)
(* subclasses and Blockly.Connection are used by these files but are not   *)
(* among them; they are modelled from the specification and are marked so. *)
(*                                                                         *)
(* Every method is an operator from a program state s (a record holding    *)
(* the fields of the workspace, of its blocks and of Blockly.Events) to    *)
(* the program state it leaves; an action applies one public operation to  *)
(* the current state.  A thrown exception is the field s.err: the          *)
(* statements after the throw are skipped, the assignments before it stay. *)
(***************************************************************************)
EXTENDS Integers, Sequences, FiniteSets, TLC

\* ------------------------------------------------------------------ bounds
\* Block ids of the model: an id is free again once its block is disposed of
\* and no recorded event refers to it.
MaxBlocks == 3
\* Events held by the undo and redo stacks together.
MaxEvents == 6
\* Blocks registered at one time where the event log is explored.
MaxLogBlocks == 2
\* Events the two stacks hold together where the event log is explored.
MaxLogEvents == 3
\* Blocks registered at one time where the shape of a block is explored.
MaxShapeBlocks == 2
\* Events the two stacks hold together where editing is explored.
MaxEditEvents == 2
\* Events the two stacks hold together where listeners fire events.
MaxNestEvents == 4
\* Blocks of the workspace whose blocks are also reparented directly.
MaxParentBlocks == 2

\* Blocks registered at one time where the check lists are explored.
MaxCheckBlocks == 3
\* Blocks registered at one time, at most, once a block with a value
\* connection is created there.
MaxValueBlocks == 2

\* Change listeners registered at one time.
MaxListeners == 2
\* Blocks registered at one time where the list of top blocks is explored.
MaxTopBlocks == 3
\* Blocks registered at one time where blocks are dragged.
MaxDragBlocks == 3
\* Events the two stacks hold together where blocks are dragged.
MaxDragEvents == 6

\* Workspace.prototype.MAX_UNDO is 1024 in the source; it is a per-workspace
\* configuration value and is scaled down here so that the overflow is reached.
MAX_UNDO == 2

\* ------------------------------------------------------------- null values
\* null, as the value of a reference to a block (parentBlock_ = null).
NoBlock == 0
\* null, as the value of a reference to a connection (targetConnection).
NoConn == <<>>
\* '' as the current event group: no group is open.
NoGroup == 0
\* No exception has been thrown.
NoErr == ""

BlockIds == 1..MaxBlocks

\* The places of a block's connections: its three own connections and the
\* connections of its inputs (an input's place is fixed when it is appended).
InputSlots == {"in1", "in2"}
Slots == {"output", "previous", "next"} \cup InputSlots
ConnIds == BlockIds \X Slots

\* Blockly.INPUT_VALUE, OUTPUT_VALUE, NEXT_STATEMENT, PREVIOUS_STATEMENT, DUMMY_INPUT
INPUT_VALUE == "INPUT_VALUE"
OUTPUT_VALUE == "OUTPUT_VALUE"
NEXT_STATEMENT == "NEXT_STATEMENT"
PREVIOUS_STATEMENT == "PREVIOUS_STATEMENT"
DUMMY_INPUT == "DUMMY_INPUT"

\* check_ = null: the connection accepts any type.
NullCheck == {"null"}

\* A block id no object has been constructed for.
NoBlockRec ==
  [made |-> FALSE, workspace |-> FALSE, type |-> "", parentBlock_ |-> NoBlock,
   childBlocks_ |-> <<>>, inputList |-> <<>>, disabled |-> FALSE,
   comment |-> "null", isShadow_ |-> FALSE]

\* A field that holds no connection (outputConnection = null, ...).
NoConnection ==
  [exists |-> FALSE, type |-> "", check_ |-> NullCheck, targetConnection |-> NoConn]

VARIABLES
  blocks,            \* id -> the fields of the Blockly.Block object with that id
  conns,             \* <<id, slot>> -> the Blockly.Connection of that block
  blockDB_,          \* Workspace.blockDB_: the ids registered
  topBlocks_,        \* Workspace.topBlocks_
  undoStack_,        \* Workspace.undoStack_
  redoStack_,        \* Workspace.redoStack_
  listeners_,        \* Workspace.listeners_
  Events_group,      \* Blockly.Events.group_
  Events_recordUndo, \* Blockly.Events.recordUndo
  Events_disabled,   \* Blockly.Events.disabled_ (a nesting counter)
  op,                \* the operation the last step performed, with its arguments
  heard,             \* the listener calls of the last step, in order
  runLog,            \* the event.run calls of the last step, in order
  cleared,           \* the events the last step's recordings removed from the redo stack
  thrown,            \* the exception the last step ended with, or NoErr
  otherWorkspace,    \* a second Blockly.Workspace: its fields, as a record
  dragger            \* the Blockly.BlockDragger of the gesture in progress

vars == <<blocks, conns, blockDB_, topBlocks_, undoStack_, redoStack_, listeners_,
          Events_group, Events_recordUndo, Events_disabled,
          op, heard, runLog, cleared, thrown, otherWorkspace, dragger>>

\* Blockly.DELETE_AREA_NONE, DELETE_AREA_TRASH: what workspace.isDeleteArea(e)
\* returns for a pointer outside every deletion zone and over the trash can.
DELETE_AREA_NONE == "DELETE_AREA_NONE"
DELETE_AREA_TRASH == "DELETE_AREA_TRASH"

\* The connection manager previews no connection.
NoCandidate == <<>>

\* No block is dragged (no BlockDragger exists).  Of a BlockDragger the
\* record holds draggingBlock_, deleteArea_ and wouldDeleteBlock_; of its
\* DraggedConnectionManager the pair <<local connection, closest connection>>
\* it previews and its own delete flag; and, as observations, the height
\* of the undo stack, the registered ids and the connections when the drag
\* began.
NoDragger ==
  [draggingBlock_ |-> NoBlock, deleteArea_ |-> "null", wouldDeleteBlock_ |-> FALSE,
   closest |-> NoCandidate, managerWouldDelete |-> FALSE, base |-> 0,
   before |-> [blockDB_ |-> {}, conns |-> [c \in ConnIds |-> NoConnection]]]

\* new Blockly.Workspace(): no block, no event, no listener.
EmptyWorkspace ==
  [blocks |-> [b \in BlockIds |-> NoBlockRec],
   conns |-> [c \in ConnIds |-> NoConnection],
   blockDB_ |-> {}, topBlocks_ |-> <<>>, undoStack_ |-> <<>>, redoStack_ |-> <<>>,
   listeners_ |-> <<>>]

\* ------------------------------------------------------------ sequences
Last(q) == q[Len(q)]
Front(q) == SubSeq(q, 1, Len(q) - 1)
Range(q) == {q[i] : i \in 1..Len(q)}
Reverse(q) == [i \in 1..Len(q) |-> q[Len(q) + 1 - i]]
Max(S) == CHOOSE x \in S : \A y \in S : y <= x
Min(S) == CHOOSE x \in S : \A y \in S : x <= y

\* goog.array.remove(arr, x): removes the first occurrence of x, if there is one.
RECURSIVE goog_array_remove(_, _)
goog_array_remove(arr, x) ==
  IF arr = <<>> THEN <<>>
  ELSE IF Head(arr) = x THEN Tail(arr)
  ELSE <<Head(arr)>> \o goog_array_remove(Tail(arr), x)

\* Keeps the elements of q that satisfy the set membership, in order.
RECURSIVE SelectIn(_, _)
SelectIn(q, S) ==
  IF q = <<>> THEN <<>>
  ELSE IF Head(q) \in S THEN <<Head(q)>> \o SelectIn(Tail(q), S)
  ELSE SelectIn(Tail(q), S)

\* The current program state, as the record the methods work on: the fields
\* of the workspace the methods are called on, the fields of Blockly.Events,
\* and the block ids in use in the other workspace (foreignIds).  The
\* observations of a step (heard, runLog, cleared, err) start empty.
Cur ==
  [blocks |-> blocks, conns |-> conns, blockDB_ |-> blockDB_,
   topBlocks_ |-> topBlocks_, undoStack_ |-> undoStack_,
   redoStack_ |-> redoStack_, listeners_ |-> listeners_,
   group_ |-> Events_group, recordUndo |-> Events_recordUndo,
   disabled_ |-> Events_disabled, foreignIds |-> otherWorkspace.blockDB_,
   dragger |-> dragger,
   heard |-> <<>>, runLog |-> <<>>, cleared |-> 0, err |-> NoErr]

\* The same, for the methods called on the second workspace.
OtherCur ==
  [blocks |-> otherWorkspace.blocks, conns |-> otherWorkspace.conns, blockDB_ |-> otherWorkspace.blockDB_,
   topBlocks_ |-> otherWorkspace.topBlocks_, undoStack_ |-> otherWorkspace.undoStack_,
   redoStack_ |-> otherWorkspace.redoStack_, listeners_ |-> otherWorkspace.listeners_,
   group_ |-> Events_group, recordUndo |-> Events_recordUndo,
   disabled_ |-> Events_disabled, foreignIds |-> blockDB_,
   dragger |-> dragger,
   heard |-> <<>>, runLog |-> <<>>, cleared |-> 0, err |-> NoErr]

\* throw msg: the first exception is the one that propagates.
Throw(s, msg) == IF s.err = NoErr THEN [s EXCEPT !.err = msg] ELSE s

\* ------------------------------------------------------------------ events
\* The events the two stacks hold.
StackEvents(s) == Range(s.undoStack_) \cup Range(s.redoStack_)

\* The construction number of the next recorded event: events on the stacks
\* are numbered in the order of their construction (an observation of the
\* model; the program's events carry no number).  An event that is not to be
\* recorded gets 0.
NextEventId(s) ==
  IF ~s.recordUndo THEN 0
  ELSE 1 + Max({0} \cup {e.id : e \in StackEvents(s)})

\* Blockly.Events.Abstract: the constructor captures the current group and
\* the current recordUndo flag.
Abstract(s) ==
  [id |-> NextEventId(s), group |-> s.group_, recordUndo |-> s.recordUndo]

\* The superior connection the block b is attached to, or NoConn.
ParentConnection(s, b) ==
  IF s.conns[<<b, "output">>].exists /\ s.conns[<<b, "output">>].targetConnection # NoConn
    THEN s.conns[<<b, "output">>].targetConnection
  ELSE IF s.conns[<<b, "previous">>].exists
          /\ s.conns[<<b, "previous">>].targetConnection # NoConn
    THEN s.conns[<<b, "previous">>].targetConnection
  ELSE NoConn

\* The exception that ends a recursion that does not return.
RangeError == "RangeError: Maximum call stack size exceeded"

\* The arrays of a sequence of arrays, one after the other.
RECURSIVE Flatten(_)
Flatten(arrays) ==
  IF arrays = <<>> THEN <<>> ELSE Head(arrays) \o Flatten(Tail(arrays))

\* getDescendants walking the child list from its last block to its first.
RECURSIVE DescendantsOfLastFirst(_, _, _)
DescendantsOfLastFirst(s, b, depth) ==
  LET childBlocks_ == s.blocks[b].childBlocks_
      below == [x \in 1..Len(childBlocks_) |->
                  DescendantsOfLastFirst(s, childBlocks_[Len(childBlocks_) + 1 - x],
                                         depth - 1)]
  IN IF depth = 0 THEN [err |-> RangeError, blocks |-> <<>>]
     ELSE IF \E x \in 1..Len(childBlocks_) : below[x].err # NoErr
       THEN [err |-> RangeError, blocks |-> <<>>]
     ELSE [err |-> NoErr,
           blocks |-> <<b>> \o Flatten([x \in 1..Len(childBlocks_) |-> below[x].blocks])]

\* Block.getDescendants, called on block b with depth nested calls to go:
\*   var blocks = [this];
\*   for (var child, x = 0; child = this.childBlocks_[x]; x++)
\*     blocks.push.apply(blocks, child.getDescendants());
\*   return blocks;
\* The result is the array returned (blocks), or the exception of a call
\* below (err), which this call does not catch.
RECURSIVE DescendantsOf(_, _, _)
DescendantsOf(s, b, depth) ==
  LET childBlocks_ == s.blocks[b].childBlocks_
      below == [x \in 1..Len(childBlocks_) |->
                  DescendantsOf(s, childBlocks_[x], depth - 1)]
  IN IF depth = 0 THEN [err |-> RangeError, blocks |-> <<>>]
     ELSE IF \E x \in 1..Len(childBlocks_) : below[x].err # NoErr
       THEN [err |-> RangeError, blocks |-> <<>>]
     ELSE [err |-> NoErr,
           blocks |-> <<b>> \o Flatten([x \in 1..Len(childBlocks_) |-> below[x].blocks])]

\* Block.getDescendants.  A chain of more nested calls than there are blocks
\* passes a block twice, so it follows a cycle of the child lists and never
\* ends by itself: the call stack overflows.
getDescendants(s, b) == DescendantsOf(s, b, MaxBlocks)

\* What a Create or Delete event keeps of a block and of the blocks below it.
Snapshot(s, b) ==
  LET ds == getDescendants(s, b).blocks
  IN [i \in 1..Len(ds) |->
        [id |-> ds[i], type |-> s.blocks[ds[i]].type,
         disabled |-> s.blocks[ds[i]].disabled,
         comment |-> s.blocks[ds[i]].comment,
         parent |-> IF i = 1 THEN NoConn ELSE ParentConnection(s, ds[i])]]

BlockEvent(s, type, b) ==
  [id |-> Abstract(s).id, group |-> Abstract(s).group,
   recordUndo |-> Abstract(s).recordUndo,
   type |-> type, blockId |-> b, element |-> "", oldValue |-> "", newValue |-> "",
   oldParent |-> NoConn, newParent |-> NoConn, snapshot |-> <<>>]

\* new Blockly.Events.BlockChange(block, element, name, oldValue, newValue)
BlockChange(s, b, element, oldValue, newValue) ==
  [BlockEvent(s, "change", b) EXCEPT
     !.element = element, !.oldValue = oldValue, !.newValue = newValue]

\* new Blockly.Events.BlockCreate(block)
BlockCreate(s, b) == [BlockEvent(s, "create", b) EXCEPT !.snapshot = Snapshot(s, b)]

\* new Blockly.Events.BlockDelete(block)
BlockDelete(s, b) == [BlockEvent(s, "delete", b) EXCEPT !.snapshot = Snapshot(s, b)]

\* new Blockly.Events.BlockMove(block): the old parent connection is captured.
BlockMove(s, b) == [BlockEvent(s, "move", b) EXCEPT !.oldParent = ParentConnection(s, b)]

\* BlockMove.recordNew(): the new parent connection is captured.
recordNew(s, e) == [e EXCEPT !.newParent = ParentConnection(s, e.blockId)]

\* Abstract.isNull returns false; a Change overrides it (old and new value
\* equal), and so does a Move (old and new place equal: the parent
\* connection, and the coordinate, which a Move carries as its value).
isNull(e) ==
  CASE e.type = "change" -> e.oldValue = e.newValue
    [] e.type = "move" -> e.oldParent = e.newParent /\ e.oldValue = e.newValue
    [] OTHER -> FALSE

\* addTopBlock putting the block in front of the list.
addTopBlockInFront(s, b) == [s EXCEPT !.topBlocks_ = <<b>> \o @]

\* --------------------------------------------------------------- workspace
\* Workspace.addTopBlock
addTopBlock(s, b) == [s EXCEPT !.topBlocks_ = Append(@, b)]

\* Workspace.removeTopBlock: throws when the block is not in the list.
removeTopBlock(s, b) ==
  IF b \in Range(s.topBlocks_)
    THEN [s EXCEPT !.topBlocks_ = goog_array_remove(@, b)]
    ELSE Throw(s, "Block not present in workspace's list of top-most blocks.")

\* Workspace.getBlockById
getBlockById(s, id) == IF id \in s.blockDB_ THEN id ELSE NoBlock

\* Workspace.getTopBlocks(false): a copy of the list of top blocks.
getTopBlocks(s) == s.topBlocks_

\* Block.getChildren
getChildren(s, b) == s.blocks[b].childBlocks_

\* The loop of getAllBlocks, at index i (1-based here) of the growing array
\* blocks (arr here):
\*   for (var i = 0; i < blocks.length; i++)
\*     blocks.push.apply(blocks, blocks[i].getChildren());
\* An acyclic graph of MaxBlocks blocks has fewer than 2^MaxBlocks paths
\* from its top blocks; an array longer than that follows a cycle of the
\* child lists, and the loop does not end by itself.
RECURSIVE AllBlocksFrom(_, _, _)
AllBlocksFrom(s, arr, i) ==
  IF Len(arr) > 2 ^ MaxBlocks THEN [err |-> RangeError, blocks |-> <<>>]
  ELSE IF i > Len(arr) THEN [err |-> NoErr, blocks |-> arr]
  ELSE AllBlocksFrom(s, arr \o getChildren(s, arr[i]), i + 1)

\* Workspace.getAllBlocks
getAllBlocks(s) == AllBlocksFrom(s, getTopBlocks(s), 1)

\* Workspace.addChangeListener
addChangeListener(s, func) == [s EXCEPT !.listeners_ = Append(@, func)]

\* Workspace.removeChangeListener
removeChangeListener(s, func) == [s EXCEPT !.listeners_ = goog_array_remove(@, func)]

\* The change listeners of the model.  "observer" only looks at the event;
\* "once" is a listener that unregisters itself when it is called (as the
\* onchange handler of a block does when it disposes of its block).
ListenerIds == {"observer", "once"}

\* A listener that changes the workspace when it is called: told of the
\* creation of a block, it sets the comment text of that block,
\*   function(e) { if (e.type == Blockly.Events.CREATE)
\*                   workspace.getBlockById(e.blockId).setCommentText('seen'); }
\* so that a Change event is fired while the Create event is delivered.
Annotator == "annotator"

\* func(event): what the call of one listener does to the program state.
RECURSIVE setCommentText(_, _, _)
CallListener(s, func, event) ==
  IF func = "once" THEN removeChangeListener(s, func)
  ELSE IF func = Annotator /\ event.type = "create"
    THEN setCommentText(s, event.blockId, "seen")
  ELSE s

\* The loop of fireChangeListener:
\*   for (var i = 0, func; func = this.listeners_[i]; i++) { func(event); }
\* It reads the live list at every index (i is 1-based here).  What the
\* listener can see when it is called is kept with the call: whether the
\* event is on the undo stack, the ids getBlockById finds, the top blocks and
\* the current group.
RECURSIVE NotifyFrom(_, _, _)
NotifyFrom(s, event, i) ==
  IF i > Len(s.listeners_) THEN s
  ELSE LET func == s.listeners_[i]
           told == [s EXCEPT !.heard =
                      Append(@, [func |-> func, event |-> event,
                                 recorded |-> event \in Range(s.undoStack_),
                                 live |-> s.blockDB_,
                                 tops |-> Range(s.topBlocks_),
                                 group |-> s.group_])]
       IN NotifyFrom(CallListener(told, func, event), event, i + 1)

\* this.undoStack_.unshift(): Array.prototype.unshift without an argument
\* inserts nothing and removes nothing.
unshift(arr) == arr

\* fireChangeListener without "this.redoStack_.length = 0".
fireKeepingRedo(s, event) ==
  LET pushed == [s EXCEPT !.undoStack_ = Append(@, event)]
  IN NotifyFrom(IF event.recordUndo THEN pushed ELSE s, event, 1)

\* fireChangeListener that calls the listeners before it records the event.
fireChangeListenerLate(s, event) ==
  LET told == NotifyFrom(s, event, 1)
  IN IF event.recordUndo
       THEN [told EXCEPT !.undoStack_ = Append(@, event), !.redoStack_ = <<>>,
                         !.cleared = @ + Len(told.redoStack_)]
       ELSE told

\* Workspace.fireChangeListener
fireChangeListener(s, event) ==
  LET Trim(pushed) ==
        IF Len(pushed.undoStack_) > MAX_UNDO
          THEN [pushed EXCEPT !.undoStack_ = unshift(@)]
          ELSE pushed
      Record ==
        Trim([s EXCEPT !.undoStack_ = Append(@, event), !.redoStack_ = <<>>,
                       !.cleared = @ + Len(s.redoStack_)])
  IN NotifyFrom(IF event.recordUndo THEN Record ELSE s, event, 1)

\* Workspace.clearUndo
clearUndo(s) == [s EXCEPT !.undoStack_ = <<>>, !.redoStack_ = <<>>]

\* ---------------------------------------------------------- Blockly.Events
\* Blockly.Events.isEnabled
isEnabled(s) == s.disabled_ = 0

\* Blockly.Events.disable / enable
Events_disable(s) == [s EXCEPT !.disabled_ = @ + 1]
Events_enable(s) == [s EXCEPT !.disabled_ = @ - 1]

\* Blockly.Events.getGroup
getGroup(s) == s.group_

\* A fresh group id, as genUid() gives one: an id no event and no open group has.
FreshGroup(s) ==
  Min((1..(MaxEvents + 2)) \ ({s.group_} \cup {e.group : e \in StackEvents(s)}))

\* Blockly.Events.setGroup(state): true opens a group with a fresh id, false
\* closes the group, a string makes that string the group.
setGroup(s, state) ==
  IF state \in {TRUE, FALSE}
    THEN IF state THEN [s EXCEPT !.group_ = FreshGroup(s)]
                  ELSE [s EXCEPT !.group_ = NoGroup]
    ELSE s

\* Blockly.Events.setGroup(id) with a string: that string is the group.
setGroupId(s, id) == [s EXCEPT !.group_ = id]

\* Blockly.Events.fire(event): the event is delivered to the workspace,
\* unless events are disabled.  Delivery is synchronous.
Events_fire(s, event) ==
  IF s.err # NoErr \/ ~isEnabled(s) THEN s ELSE fireChangeListener(s, event)

\* Blockly.Events.filter(queue, forward): the events that are not null, in
\* the order of the queue.
Events_filter(queue, forward) ==
  SelectIn(queue, {e \in Range(queue) : ~isNull(e)})

\* ------------------------------------------------------------- connections
\* Connection.isSuperior: an input or next connection holds a block below it.
isSuperior(s, c) == s.conns[c].type \in {INPUT_VALUE, NEXT_STATEMENT}

\* Connection.isConnected
isConnected(s, c) == s.conns[c].exists /\ s.conns[c].targetConnection # NoConn

\* Connection.targetBlock: the block of the connection this one is attached to.
targetBlock(s, c) ==
  IF isConnected(s, c) THEN s.conns[c].targetConnection[1] ELSE NoBlock

\* Connection.checkType_: the two check lists intersect, or one side accepts
\* any type.
checkType_(s, a, b) ==
  \/ s.conns[a].check_ = NullCheck
  \/ s.conns[b].check_ = NullCheck
  \/ s.conns[a].check_ \cap s.conns[b].check_ # {}

\* The kinds that may be joined: value with value, previous with next.
OppositeType(type) ==
  CASE type = INPUT_VALUE -> OUTPUT_VALUE
    [] type = OUTPUT_VALUE -> INPUT_VALUE
    [] type = NEXT_STATEMENT -> PREVIOUS_STATEMENT
    [] type = PREVIOUS_STATEMENT -> NEXT_STATEMENT
    [] OTHER -> ""

\* Whether connect(a, b) passes its validation.
canConnect(s, a, b) ==
  /\ s.conns[a].exists /\ s.conns[b].exists
  /\ s.conns[b].type = OppositeType(s.conns[a].type)
  /\ checkType_(s, a, b)

\* setParent leaving the block in the child list of its old parent.
setParentKeepingChild(s, b, newParent) ==
  LET old == s.blocks[b].parentBlock_
      Enter(s1) ==
        IF newParent # NoBlock
          THEN [s1 EXCEPT !.blocks[b].parentBlock_ = newParent,
                          !.blocks[newParent].childBlocks_ = Append(@, b)]
          ELSE addTopBlock([s1 EXCEPT !.blocks[b].parentBlock_ = newParent], b)
  IN IF s.err # NoErr THEN s
     ELSE IF newParent = old THEN s
     ELSE IF old # NoBlock THEN Enter(s)
     ELSE Enter(removeTopBlock(s, b))

\* setParent without "this.workspace.addTopBlock(this)" for a block that
\* gets no parent.
setParentNotTop(s, b, newParent) ==
  LET old == s.blocks[b].parentBlock_
      Detach(removed) ==
        IF isConnected(s, <<b, "previous">>)
          THEN Throw(removed, "Still connected to previous block.")
        ELSE IF isConnected(s, <<b, "output">>)
          THEN Throw(removed, "Still connected to parent block.")
        ELSE [removed EXCEPT !.blocks[b].parentBlock_ = NoBlock]
      Leave ==
        IF old # NoBlock
          THEN Detach([s EXCEPT !.blocks[old].childBlocks_ = goog_array_remove(@, b)])
        ELSE removeTopBlock(s, b)
      Enter(s1) ==
        IF s1.err # NoErr THEN s1
        ELSE IF newParent # NoBlock
          THEN [s1 EXCEPT !.blocks[b].parentBlock_ = newParent,
                          !.blocks[newParent].childBlocks_ = Append(@, b)]
        ELSE [s1 EXCEPT !.blocks[b].parentBlock_ = newParent]
  IN IF s.err # NoErr THEN s
     ELSE IF newParent = old THEN s
     ELSE Enter(Leave)

\* setParent without the two tests that the block is detached from its
\* superior block.
setParentAttached(s, b, newParent) ==
  LET old == s.blocks[b].parentBlock_
      Leave ==
        IF old # NoBlock
          THEN [s EXCEPT !.blocks[old].childBlocks_ = goog_array_remove(@, b),
                         !.blocks[b].parentBlock_ = NoBlock]
        ELSE IF ~s.blocks[b].workspace
          THEN Throw(s, "TypeError: this.workspace is null")
        ELSE removeTopBlock(s, b)
      Enter(s1) ==
        IF s1.err # NoErr THEN s1
        ELSE IF newParent # NoBlock
          THEN [s1 EXCEPT !.blocks[b].parentBlock_ = newParent,
                          !.blocks[newParent].childBlocks_ = Append(@, b)]
        ELSE IF ~s.blocks[b].workspace
          THEN Throw([s1 EXCEPT !.blocks[b].parentBlock_ = newParent],
                     "TypeError: this.workspace is null")
        ELSE addTopBlock([s1 EXCEPT !.blocks[b].parentBlock_ = newParent], b)
  IN IF s.err # NoErr THEN s
     ELSE IF newParent = old THEN s
     ELSE Enter(Leave)

\* Block.setParent
setParent(s, b, newParent) ==
  LET old == s.blocks[b].parentBlock_
      Detach(removed) ==
        IF isConnected(s, <<b, "previous">>)
          THEN Throw(removed, "Still connected to previous block.")
        ELSE IF isConnected(s, <<b, "output">>)
          THEN Throw(removed, "Still connected to parent block.")
        ELSE [removed EXCEPT !.blocks[b].parentBlock_ = NoBlock]
      Leave ==
        IF old # NoBlock
          THEN Detach([s EXCEPT !.blocks[old].childBlocks_ = goog_array_remove(@, b)])
        ELSE IF ~s.blocks[b].workspace
          THEN Throw(s, "TypeError: this.workspace is null")
        ELSE removeTopBlock(s, b)
      Enter(s1) ==
        IF s1.err # NoErr THEN s1
        ELSE IF newParent # NoBlock
          THEN [s1 EXCEPT !.blocks[b].parentBlock_ = newParent,
                          !.blocks[newParent].childBlocks_ = Append(@, b)]
        ELSE IF ~s.blocks[b].workspace
          THEN Throw([s1 EXCEPT !.blocks[b].parentBlock_ = newParent],
                     "TypeError: this.workspace is null")
        ELSE addTopBlock([s1 EXCEPT !.blocks[b].parentBlock_ = newParent], b)
  IN IF s.err # NoErr THEN s
     ELSE IF newParent = old THEN s
     ELSE Enter(Leave)

\* Connection.disconnect: nothing when the connection is not attached;
\* otherwise both targets are cleared, the block below gets no parent, and a
\* Move event of that block is fired.
disconnect(s, c) ==
  LET other == s.conns[c].targetConnection
      childBlock == IF isSuperior(s, c) THEN other[1] ELSE c[1]
      Report(s2) ==
        IF isEnabled(s) THEN Events_fire(s2, recordNew(s2, BlockMove(s, childBlock)))
        ELSE s2
  IN IF s.err # NoErr \/ ~isConnected(s, c) THEN s
     ELSE Report(setParent([s EXCEPT !.conns[c].targetConnection = NoConn,
                                     !.conns[other].targetConnection = NoConn],
                           childBlock, NoBlock))

\* Connection.connect: fails when the kinds or the checks are incompatible;
\* otherwise the two targets are set to each other, the block below gets
\* the block above as its parent, and a Move event of the block below is
\* fired.  A side that is attached is detached first.
connect(s, a, b) ==
  LET parentConnection == IF isSuperior(s, a) THEN a ELSE b
      childConnection == IF isSuperior(s, a) THEN b ELSE a
      Report(s2, event) ==
        IF isEnabled(s) THEN Events_fire(s2, recordNew(s2, event)) ELSE s2
      Attach(s0) ==
        Report(setParent([s0 EXCEPT
                            !.conns[parentConnection].targetConnection = childConnection,
                            !.conns[childConnection].targetConnection = parentConnection],
                         childConnection[1], parentConnection[1]),
               BlockMove(s0, childConnection[1]))
  IN IF s.err # NoErr THEN s
     ELSE IF s.conns[a].exists /\ s.conns[a].targetConnection = b THEN s
     ELSE IF ~canConnect(s, a, b) THEN Throw(s, "ConnectionError")
     ELSE Attach(disconnect(disconnect(s, childConnection), parentConnection))

\* Connection.dispose: a connection that is still attached cannot be disposed of.
Connection_dispose(s, c) ==
  IF s.err # NoErr THEN s
  ELSE IF isConnected(s, c) THEN Throw(s, "Disconnect connection before disposing of it.")
  ELSE [s EXCEPT !.conns[c] = NoConnection]

\* Connection.setCheck: the check list is replaced; a connection attached to
\* a connection it no longer matches is detached.
setCheck(s, c, check) ==
  LET Recheck(s1) ==
        IF isConnected(s1, c) /\ ~checkType_(s1, c, s1.conns[c].targetConnection)
          THEN disconnect(s1, c)
          ELSE s1
  IN IF s.err # NoErr THEN s
     ELSE Recheck([s EXCEPT !.conns[c].check_ = check])

\* Block.makeConnection_ (new Blockly.Connection(this, type)), stored at slot.
makeConnection_(s, b, slot, type) ==
  [s EXCEPT !.conns[<<b, slot>>] =
     [exists |-> TRUE, type |-> type, check_ |-> NullCheck, targetConnection |-> NoConn]]

\* new Blockly.Events.BlockDelete(block) and Blockly.Events.fire of it: the
\* event is built from the blocks below, and building it fails where
\* walking them does.
FireDelete(s, b) ==
  IF getDescendants(s, b).err # NoErr THEN Throw(s, getDescendants(s, b).err)
  ELSE Events_fire(s, BlockDelete(s, b))

\* ------------------------------------------------------------------ blocks
\* Block.getNextBlock
getNextBlock(s, b) ==
  IF s.conns[<<b, "next">>].exists THEN targetBlock(s, <<b, "next">>) ELSE NoBlock

\* Block.getInput: the first input with that name, as its index, or 0.
getInput(s, b, name) ==
  LET hits == {i \in 1..Len(s.blocks[b].inputList) : s.blocks[b].inputList[i].name = name}
  IN IF hits = {} THEN 0 ELSE Min(hits)

\* Block.getInputTargetBlock
getInputTargetBlock(s, b, name) ==
  LET i == getInput(s, b, name)
  IN IF i = 0 THEN NoBlock
     ELSE IF s.blocks[b].inputList[i].type = DUMMY_INPUT THEN NoBlock
     ELSE targetBlock(s, <<b, s.blocks[b].inputList[i].slot>>)

\* unplug clearing only the block's own side of the attachment.
unplugOwnSide(s, b, opt_healStack) ==
  LET own == IF s.conns[<<b, "output">>].exists THEN <<b, "output">> ELSE <<b, "previous">>
  IN IF s.err # NoErr \/ ~isConnected(s, own) THEN s
     ELSE setParent([s EXCEPT !.conns[own].targetConnection = NoConn], b, NoBlock)

\* unplug joining the two ends without asking previousTarget.checkType_.
unplugForcingHeal(s, b, opt_healStack) ==
  LET previousTarget == s.conns[<<b, "previous">>].targetConnection
      Heal(s2, nextTarget) ==
        IF previousTarget # NoConn /\ s2.err = NoErr
          THEN connect(s2, previousTarget, nextTarget)
          ELSE s2
      Rest(s1) ==
        IF opt_healStack /\ s1.err = NoErr /\ getNextBlock(s1, b) # NoBlock
          THEN Heal(disconnect(s1, s1.conns[<<b, "next">>].targetConnection),
                    s1.conns[<<b, "next">>].targetConnection)
          ELSE s1
  IN IF s.err # NoErr THEN s
     ELSE IF s.conns[<<b, "output">>].exists
       THEN disconnect(s, <<b, "output">>)
     ELSE IF s.conns[<<b, "previous">>].exists
       THEN Rest(disconnect(s, <<b, "previous">>))
     ELSE s

\* unplug healing the stack whatever opt_healStack says.
unplugAlwaysHealing(s, b, opt_healStack) ==
  LET previousTarget == s.conns[<<b, "previous">>].targetConnection
      Heal(s2, nextTarget) ==
        IF previousTarget # NoConn /\ s2.err = NoErr
           /\ checkType_(s2, previousTarget, nextTarget)
          THEN connect(s2, previousTarget, nextTarget)
          ELSE s2
      Rest(s1) ==
        IF s1.err = NoErr /\ getNextBlock(s1, b) # NoBlock
          THEN Heal(disconnect(s1, s1.conns[<<b, "next">>].targetConnection),
                    s1.conns[<<b, "next">>].targetConnection)
          ELSE s1
  IN IF s.err # NoErr THEN s
     ELSE IF s.conns[<<b, "output">>].exists
       THEN disconnect(s, <<b, "output">>)
     ELSE IF s.conns[<<b, "previous">>].exists
       THEN Rest(disconnect(s, <<b, "previous">>))
     ELSE s

\* Block.unplug
unplug(s, b, opt_healStack) ==
  LET previousTarget == s.conns[<<b, "previous">>].targetConnection
      Heal(s2, nextTarget) ==
        IF previousTarget # NoConn /\ s2.err = NoErr
           /\ checkType_(s2, previousTarget, nextTarget)
          THEN connect(s2, previousTarget, nextTarget)
          ELSE s2
      Rest(s1) ==
        IF opt_healStack /\ s1.err = NoErr /\ getNextBlock(s1, b) # NoBlock
          THEN Heal(disconnect(s1, s1.conns[<<b, "next">>].targetConnection),
                    s1.conns[<<b, "next">>].targetConnection)
          ELSE s1
  IN IF s.err # NoErr THEN s
     ELSE IF s.conns[<<b, "output">>].exists
       THEN disconnect(s, <<b, "output">>)
     ELSE IF s.conns[<<b, "previous">>].exists
       THEN Rest(disconnect(s, <<b, "previous">>))
     ELSE s

\* Block.getConnections_: output, previous, next, then the inputs' connections.
getConnections_(s, b) ==
  LET own == SelectIn(<<"output", "previous", "next">>,
                      {x \in Slots : s.conns[<<b, x>>].exists})
      ins == [i \in 1..Len(s.blocks[b].inputList) |-> s.blocks[b].inputList[i].slot]
  IN [i \in 1..Len(own) |-> <<b, own[i]>>]
     \o [i \in 1..Len(SelectIn(ins, {x \in Slots : s.conns[<<b, x>>].exists})) |->
           <<b, SelectIn(ins, {x \in Slots : s.conns[<<b, x>>].exists})[i]>>]

\* Input.dispose: the input's connection, if it has one, is disposed of.
Input_dispose(s, b, input) ==
  IF s.err # NoErr THEN s
  ELSE IF input.type = DUMMY_INPUT THEN s
  ELSE Connection_dispose(s, <<b, input.slot>>)

RECURSIVE DisposeInputs(_, _, _)
DisposeInputs(s, b, i) ==
  IF s.err # NoErr \/ i > Len(s.blocks[b].inputList) THEN s
  ELSE DisposeInputs(Input_dispose(s, b, s.blocks[b].inputList[i]), b, i + 1)

\* The last loop of dispose: each remaining connection is detached if it is
\* attached, then disposed of.
RECURSIVE DisposeConnections(_, _, _)
DisposeConnections(s, connections, i) ==
  IF s.err # NoErr \/ i > Len(connections) THEN s
  ELSE DisposeConnections(Connection_dispose(disconnect(s, connections[i]),
                                             connections[i]),
                          connections, i + 1)

RECURSIVE dispose(_, _, _)
RECURSIVE DisposeChildren(_, _, _)

\* for (var i = this.childBlocks_.length - 1; i >= 0; i--)
\*   this.childBlocks_[i].dispose(false);
\* (i is 1-based here; the list is read again at every index).
DisposeChildren(s, b, i) ==
  IF s.err # NoErr \/ i < 1 THEN s
  ELSE IF i > Len(s.blocks[b].childBlocks_)
    THEN Throw(s, "TypeError: this.childBlocks_[i] is undefined")
  ELSE DisposeChildren(dispose(s, s.blocks[b].childBlocks_[i], FALSE), b, i - 1)

\* The try block of dispose without the loop that disposes of the children.
DisposeBodySparingChildren(s, b) ==
  LET Unregister(s1) ==
        IF s1.err # NoErr THEN s1
        ELSE [s1 EXCEPT !.blockDB_ = @ \ {b}, !.blocks[b].workspace = FALSE]
      Empty(s4) ==
        IF s4.err # NoErr THEN s4 ELSE [s4 EXCEPT !.blocks[b].inputList = <<>>]
      Rest(s5) == DisposeConnections(s5, getConnections_(s5, b), 1)
  IN Rest(Empty(DisposeInputs(Unregister(removeTopBlock(s, b)), b, 1)))

\* The try block of dispose.
DisposeBody(s, b) ==
  LET Unregister(s1) ==
        IF s1.err # NoErr THEN s1
        ELSE [s1 EXCEPT !.blockDB_ = @ \ {b}, !.blocks[b].workspace = FALSE]
      Children(s2) == DisposeChildren(s2, b, Len(s2.blocks[b].childBlocks_))
      Empty(s4) ==
        IF s4.err # NoErr THEN s4 ELSE [s4 EXCEPT !.blocks[b].inputList = <<>>]
      Rest(s5) == DisposeConnections(s5, getConnections_(s5, b), 1)
  IN Rest(Empty(DisposeInputs(Children(Unregister(removeTopBlock(s, b))), b, 1)))

\* dispose without the test "if (!this.workspace) return".
disposeUnguarded(s, b, healStack) ==
  LET Delete(s1) ==
        IF s1.err = NoErr /\ isEnabled(s1)
          THEN FireDelete(s1, b) ELSE s1
      Take(s2) ==
        IF s2.err # NoErr THEN s2
        ELSE Events_enable(DisposeBody(Events_disable(s2), b))
  IN IF s.err # NoErr THEN s
     ELSE Take(Delete(unplug(s, b, healStack)))

\* dispose firing the Delete event before it unplugs the block.
disposeDeleteFirst(s, b, healStack) ==
  LET Delete(s1) ==
        IF s1.err = NoErr /\ isEnabled(s1)
          THEN FireDelete(s1, b) ELSE s1
      Take(s2) ==
        IF s2.err # NoErr THEN s2
        ELSE Events_enable(DisposeBody(Events_disable(s2), b))
  IN IF s.err # NoErr THEN s
     ELSE IF ~s.blocks[b].workspace THEN s
     ELSE Take(unplug(Delete(s), b, healStack))

\* dispose firing the Delete event at the end, after the block is torn down.
disposeDeleteLast(s, b, healStack) ==
  LET Delete(s1) ==
        IF s1.err = NoErr /\ isEnabled(s1)
          THEN FireDelete(s1, b) ELSE s1
      Take(s2) ==
        IF s2.err # NoErr THEN s2
        ELSE Events_enable(DisposeBody(Events_disable(s2), b))
  IN IF s.err # NoErr THEN s
     ELSE IF ~s.blocks[b].workspace THEN s
     ELSE Delete(Take(unplug(s, b, healStack)))

\* dispose unplugging the block without healing, whatever healStack says.
disposeNeverHealing(s, b, healStack) ==
  LET Delete(s1) ==
        IF s1.err = NoErr /\ isEnabled(s1)
          THEN FireDelete(s1, b) ELSE s1
      Take(s2) ==
        IF s2.err # NoErr THEN s2
        ELSE Events_enable(DisposeBody(Events_disable(s2), b))
  IN IF s.err # NoErr THEN s
     ELSE IF ~s.blocks[b].workspace THEN s
     ELSE Take(Delete(unplug(s, b, FALSE)))

\* dispose without Blockly.Events.disable() and enable() around the try block.
disposeReporting(s, b, healStack) ==
  LET Delete(s1) ==
        IF s1.err = NoErr /\ isEnabled(s1)
          THEN FireDelete(s1, b) ELSE s1
      Take(s2) ==
        IF s2.err # NoErr THEN s2 ELSE DisposeBody(s2, b)
  IN IF s.err # NoErr THEN s
     ELSE IF ~s.blocks[b].workspace THEN s
     ELSE Take(Delete(unplug(s, b, healStack)))

\* Block.dispose
dispose(s, b, healStack) ==
  LET Delete(s1) ==
        IF s1.err = NoErr /\ isEnabled(s1)
          THEN FireDelete(s1, b) ELSE s1
      Take(s2) ==
        IF s2.err # NoErr THEN s2
        ELSE Events_enable(DisposeBody(Events_disable(s2), b))
  IN IF s.err # NoErr THEN s
     ELSE IF ~s.blocks[b].workspace THEN s
     ELSE Take(Delete(unplug(s, b, healStack)))

\* The loop of Workspace.clear:
\*   while (this.topBlocks_.length) { this.topBlocks_[0].dispose(); }
\* A loop that has not ended after more rounds than there are blocks never
\* ends (a round that removes no block repeats itself): that outcome is the
\* error "clear does not return".
RECURSIVE ClearLoop(_, _)
ClearLoop(s, rounds) ==
  IF s.err # NoErr \/ s.topBlocks_ = <<>> THEN s
  ELSE IF rounds = 0 THEN Throw(s, "clear does not return")
  ELSE ClearLoop(dispose(s, s.topBlocks_[1], FALSE), rounds - 1)

\* Workspace.clear: every top block is disposed of, within one group.  (The
\* variable maps that are cleared afterwards are not part of this model.)
clear(s) ==
  LET existingGroup == getGroup(s)
      Close(s2) ==
        IF s2.err = NoErr /\ existingGroup = NoGroup THEN setGroup(s2, FALSE) ELSE s2
  IN IF s.err # NoErr THEN s
     ELSE Close(ClearLoop(IF existingGroup = NoGroup THEN setGroup(s, TRUE) ELSE s,
                          MaxBlocks + 1))

\* goog.asserts.assert(condition, message): throws when the condition fails.
assert(s, condition, message) ==
  IF condition THEN s ELSE Throw(s, message)

\* setPreviousStatement without the assertion that there is no output
\* connection.
setPreviousStatementUnchecked(s, b, newBoolean, opt_check) ==
  IF s.err # NoErr THEN s
  ELSE IF newBoolean
    THEN setCheck(IF ~s.conns[<<b, "previous">>].exists
                    THEN makeConnection_(s, b, "previous", PREVIOUS_STATEMENT)
                    ELSE s,
                  <<b, "previous">>, opt_check)
  ELSE IF s.conns[<<b, "previous">>].exists
    THEN Connection_dispose(
           assert(s, ~isConnected(s, <<b, "previous">>),
                  "Must disconnect previous statement before removing connection."),
           <<b, "previous">>)
  ELSE s

\* Block.setPreviousStatement(newBoolean, opt_check); opt_check undefined is null.
setPreviousStatement(s, b, newBoolean, opt_check) ==
  LET Make(a) ==
        IF a.err # NoErr THEN a
        ELSE makeConnection_(a, b, "previous", PREVIOUS_STATEMENT)
  IN IF s.err # NoErr THEN s
     ELSE IF newBoolean
       THEN setCheck(IF ~s.conns[<<b, "previous">>].exists
                       THEN Make(assert(s, ~s.conns[<<b, "output">>].exists,
                              "Remove output connection prior to adding previous connection."))
                       ELSE s,
                     <<b, "previous">>, opt_check)
     ELSE IF s.conns[<<b, "previous">>].exists
       THEN Connection_dispose(
              assert(s, ~isConnected(s, <<b, "previous">>),
                     "Must disconnect previous statement before removing connection."),
              <<b, "previous">>)
     ELSE s

\* setNextStatement storing the check list without Connection.setCheck: an
\* attached pair is kept whatever the new list is.
setNextStatementKeepingPair(s, b, newBoolean, opt_check) ==
  LET Store(s1) == [s1 EXCEPT !.conns[<<b, "next">>].check_ = opt_check]
  IN IF s.err # NoErr THEN s
     ELSE IF newBoolean
       THEN Store(IF ~s.conns[<<b, "next">>].exists
                    THEN makeConnection_(s, b, "next", NEXT_STATEMENT)
                    ELSE s)
     ELSE IF s.conns[<<b, "next">>].exists
       THEN Connection_dispose(
              assert(s, ~isConnected(s, <<b, "next">>),
                     "Must disconnect next statement before removing connection."),
              <<b, "next">>)
     ELSE s

\* Block.setNextStatement(newBoolean, opt_check)
setNextStatement(s, b, newBoolean, opt_check) ==
  IF s.err # NoErr THEN s
  ELSE IF newBoolean
    THEN setCheck(IF ~s.conns[<<b, "next">>].exists
                    THEN makeConnection_(s, b, "next", NEXT_STATEMENT)
                    ELSE s,
                  <<b, "next">>, opt_check)
  ELSE IF s.conns[<<b, "next">>].exists
    THEN Connection_dispose(
           assert(s, ~isConnected(s, <<b, "next">>),
                  "Must disconnect next statement before removing connection."),
           <<b, "next">>)
  ELSE s

\* setOutput without the assertion that there is no previous connection.
setOutputUnchecked(s, b, newBoolean, opt_check) ==
  IF s.err # NoErr THEN s
  ELSE IF newBoolean
    THEN setCheck(IF ~s.conns[<<b, "output">>].exists
                    THEN makeConnection_(s, b, "output", OUTPUT_VALUE)
                    ELSE s,
                  <<b, "output">>, opt_check)
  ELSE IF s.conns[<<b, "output">>].exists
    THEN Connection_dispose(
           assert(s, ~isConnected(s, <<b, "output">>),
                  "Must disconnect output value before removing connection."),
           <<b, "output">>)
  ELSE s

\* Block.setOutput(newBoolean, opt_check)
setOutput(s, b, newBoolean, opt_check) ==
  LET Make(a) ==
        IF a.err # NoErr THEN a
        ELSE makeConnection_(a, b, "output", OUTPUT_VALUE)
  IN IF s.err # NoErr THEN s
     ELSE IF newBoolean
       THEN setCheck(IF ~s.conns[<<b, "output">>].exists
                       THEN Make(assert(s, ~s.conns[<<b, "previous">>].exists,
                              "Remove previous connection prior to adding output connection."))
                       ELSE s,
                     <<b, "output">>, opt_check)
     ELSE IF s.conns[<<b, "output">>].exists
       THEN Connection_dispose(
              assert(s, ~isConnected(s, <<b, "output">>),
                     "Must disconnect output value before removing connection."),
              <<b, "output">>)
     ELSE s

\* Block.appendInput_(type, name): a value or statement input gets a
\* connection; the input is pushed on inputList.  The connection is stored
\* at the first place no input of the block uses.
appendInput_(s, b, type, name) ==
  IF s.err # NoErr THEN s
  ELSE
    LET used == {s.blocks[b].inputList[i].slot : i \in 1..Len(s.blocks[b].inputList)}
        slot == IF "in1" \notin used THEN "in1"
                ELSE IF "in2" \notin used THEN "in2" ELSE "none"
        s1 == IF type \in {INPUT_VALUE, NEXT_STATEMENT}
                THEN makeConnection_(s, b, slot, type) ELSE s
    IN IF slot = "none" THEN Throw(s, "MODEL: no input place left")
       ELSE [s1 EXCEPT !.blocks[b].inputList =
               Append(@, [name |-> name, type |-> type, slot |-> slot])]

\* Block.appendValueInput / appendStatementInput / appendDummyInput
appendValueInput(s, b, name) == appendInput_(s, b, INPUT_VALUE, name)
appendStatementInput(s, b, name) == appendInput_(s, b, NEXT_STATEMENT, name)
appendDummyInput(s, b, opt_name) == appendInput_(s, b, DUMMY_INPUT, opt_name)

\* Block.removeInput(name, opt_quiet)
removeInput(s, b, name, opt_quiet) ==
  LET i == getInput(s, b, name)
      input == s.blocks[b].inputList[i]
      c == <<b, input.slot>>
      Free ==
        IF input.type # DUMMY_INPUT /\ isConnected(s, c)
          THEN IF s.blocks[targetBlock(s, c)].isShadow_
                 THEN dispose(s, targetBlock(s, c), FALSE)
                 ELSE unplug(s, targetBlock(s, c), FALSE)
          ELSE s
      Splice(s2) ==
        IF s2.err # NoErr THEN s2
        ELSE [s2 EXCEPT !.blocks[b].inputList =
                [k \in 1..(Len(@) - 1) |-> IF k < i THEN @[k] ELSE @[k + 1]]]
  IN IF s.err # NoErr THEN s
     ELSE IF i = 0
       THEN IF opt_quiet THEN s ELSE Throw(s, "Input not found.")
     ELSE Splice(Input_dispose(Free, b, input))

\* The value of a flag as an event carries it.
BoolText(v) == IF v THEN "true" ELSE "false"

\* Block.setDisabled
setDisabled(s, b, disabled) ==
  LET Assign(s1) == [s1 EXCEPT !.blocks[b].disabled = disabled]
  IN IF s.err # NoErr THEN s
     ELSE IF s.blocks[b].disabled # disabled
       THEN Assign(Events_fire(s, BlockChange(s, b, "disabled",
                                    BoolText(s.blocks[b].disabled), BoolText(disabled))))
     ELSE s

\* Block.setShadow
setShadow(s, b, shadow) == [s EXCEPT !.blocks[b].isShadow_ = shadow]

\* Block.setCommentText(text).  The comment is null ("null"), '' or a text;
\* this.comment != text is JavaScript's loose inequality, under which null
\* differs from ''; the event carries text || '' as the new value.
setCommentText(s, b, text) ==
  LET Assign(s1) == [s1 EXCEPT !.blocks[b].comment = text]
  IN IF s.err # NoErr THEN s
     ELSE IF s.blocks[b].comment # text
       THEN Assign(Events_fire(s, BlockChange(s, b, "comment", s.blocks[b].comment,
                                    IF text = "null" THEN "" ELSE text)))
     ELSE s

\* Block.getCommentText: this.comment || ''
getCommentText(s, b) == IF s.blocks[b].comment = "null" THEN "" ELSE s.blocks[b].comment

\* The block types registered in Blockly.Blocks.
Prototypes == {"stmt", "typed", "if", "print", "while"}

\* this.init(): the init function of the block's type, calling the methods
\* above.  "stmt" is a statement that joins anything; "typed" is a statement
\* whose previous connection takes "B" and whose next connection takes "A";
\* "if" is a statement with the value input IF0; "print" is a value;
\* "while" is a statement with the value input COND, which takes "A".
init(s, b, type) ==
  LET Inputs(s0) ==
        IF type = "if" THEN appendValueInput(s0, b, "IF0")
        ELSE IF type = "while"
          THEN setCheck(appendValueInput(s0, b, "COND"), <<b, "in1">>, {"A"})
        ELSE s0
      Output(s1) == IF type = "print" THEN setOutput(s1, b, TRUE, NullCheck) ELSE s1
      Previous(s2) ==
        IF type \in {"stmt", "typed", "if", "while"}
          THEN setPreviousStatement(s2, b, TRUE, IF type = "typed" THEN {"B"} ELSE NullCheck)
          ELSE s2
      Next_(s3) ==
        IF type \in {"stmt", "typed", "if", "while"}
          THEN setNextStatement(s3, b, TRUE, IF type = "typed" THEN {"A"} ELSE NullCheck)
          ELSE s3
  IN Next_(Previous(Output(Inputs(s))))

\* The block ids the events on the two stacks refer to.
EventBlockIds(e) ==
  {e.blockId} \cup {e.snapshot[i].id : i \in 1..Len(e.snapshot)}
  \cup (IF e.oldParent = NoConn THEN {} ELSE {e.oldParent[1]})
  \cup (IF e.newParent = NoConn THEN {} ELSE {e.newParent[1]})

\* Blockly.utils.genUid(): an id that no block of either workspace has and
\* no event refers to; NoBlock when the ids of the model are used up.
genUid(s) ==
  LET free == BlockIds \ (s.blockDB_ \cup s.foreignIds
                          \cup UNION {EventBlockIds(e) : e \in StackEvents(s)})
  IN IF free = {} THEN NoBlock ELSE Min(free)

\* The id the constructor gives the block.
NewBlockId(s, opt_id) ==
  IF opt_id # NoBlock /\ getBlockById(s, opt_id) = NoBlock THEN opt_id ELSE genUid(s)

\* Blockly.Block(workspace, prototypeName, opt_id), the constructor.
Block(s, prototypeName, opt_id) ==
  LET Close(s5, own) == IF own THEN setGroup(s5, FALSE) ELSE s5
      Create(s4, id) == Events_fire(s4, BlockCreate(s4, id))
      Announce(s3, id) ==
        IF s3.err # NoErr \/ ~isEnabled(s3) THEN s3
        ELSE Close(Create(IF getGroup(s3) = NoGroup THEN setGroup(s3, TRUE) ELSE s3, id),
                   getGroup(s3) = NoGroup)
      Build(s2, id) ==
        IF s2.err # NoErr THEN s2
        ELSE Announce(init(addTopBlock(s2, id), id, prototypeName), id)
      Register(id) ==
        IF id = NoBlock THEN Throw(s, "MODEL: no block id left")
        ELSE Build(assert([s EXCEPT !.blockDB_ = @ \cup {id},
                              !.blocks[id] = [NoBlockRec EXCEPT !.made = TRUE,
                                                !.workspace = TRUE, !.type = prototypeName],
                              !.conns = [c \in ConnIds |->
                                           IF c[1] = id THEN NoConnection ELSE @[c]]],
                          prototypeName \in Prototypes, "Error: Unknown block type."),
                   id)
  IN IF s.err # NoErr THEN s ELSE Register(NewBlockId(s, opt_id))

\* Workspace.newBlock
newBlock(s, prototypeName, opt_id) == Block(s, prototypeName, opt_id)

\* --------------------------------------------------------------- event.run
\* The blocks of a snapshot are built again, with their ids, their flags and
\* their places below the first one; events are disabled meanwhile.
RECURSIVE RebuildFrom(_, _, _)
RebuildFrom(s, snapshot, i) ==
  LET Own(s2, id) ==
        IF s2.conns[<<id, "output">>].exists THEN <<id, "output">> ELSE <<id, "previous">>
      Place(s2, id, parent) ==
        IF parent # NoConn /\ s2.err = NoErr /\ s2.conns[parent].exists
          THEN connect(s2, Own(s2, id), parent) ELSE s2
      Flags(s1, id, x) ==
        IF s1.err # NoErr THEN s1
        ELSE [s1 EXCEPT !.blocks[id].disabled = x.disabled,
                        !.blocks[id].comment = x.comment]
      One(x, id) == Place(Flags(Block(s, x.type, x.id), id, x), id, x.parent)
  IN IF s.err # NoErr \/ i > Len(snapshot) THEN s
     ELSE RebuildFrom(One(snapshot[i], NewBlockId(s, snapshot[i].id)), snapshot, i + 1)

\* The block of a Create or Delete event is brought back from the snapshot
\* and a Create event is fired for it.
Recreate(s, snapshot) ==
  LET Fire(s1, id) ==
        IF s1.err # NoErr THEN s1 ELSE Events_fire(s1, BlockCreate(s1, id))
  IN Fire(Events_enable(RebuildFrom(Events_disable(s), snapshot, 1)),
          NewBlockId(s, snapshot[1].id))

\* BlockMove.run: the block is unplugged and attached to the connection it
\* had before (backward) or after (forward) the move, if that still exists.
Move_run(s, e, forward) ==
  LET b == e.blockId
      place == IF forward THEN e.newParent ELSE e.oldParent
      Own(s1) ==
        IF s1.conns[<<b, "output">>].exists THEN <<b, "output">> ELSE <<b, "previous">>
      Join(s1) ==
        IF place = NoConn \/ s1.err # NoErr \/ ~s1.conns[place].exists THEN s1
        ELSE connect(s1, Own(s1), place)
  IN IF getBlockById(s, b) = NoBlock THEN s
     ELSE IF place # NoConn /\ getBlockById(s, place[1]) = NoBlock THEN s
     ELSE Join(unplug(s, b, FALSE))

\* BlockChange.run: the element gets the new (forward) or the old value.
Change_run(s, e, forward) ==
  LET b == e.blockId
      value == IF forward THEN e.newValue ELSE e.oldValue
  IN IF getBlockById(s, b) = NoBlock THEN s
     ELSE IF e.element = "disabled" THEN setDisabled(s, b, value = "true")
     ELSE IF e.element = "comment"
       THEN setCommentText(s, b, IF value = "" THEN "null" ELSE value)
     ELSE s

\* event.run(forward), by the type of the event.
run(s, e, forward) ==
  LET Apply(s0) ==
        CASE e.type = "change" -> Change_run(s0, e, forward)
          [] e.type = "move" -> Move_run(s0, e, forward)
          [] e.type \in {"create", "delete"} ->
               IF (e.type = "create") = forward THEN Recreate(s0, e.snapshot)
               ELSE IF getBlockById(s0, e.blockId) = NoBlock THEN s0
               ELSE dispose(s0, e.blockId, FALSE)
          [] OTHER -> s0
  IN IF s.err # NoErr THEN s
     ELSE Apply([s EXCEPT !.runLog = Append(@, [event |-> e, forward |-> forward])])

\* ------------------------------------------------------------------- undo
\* undo without its while loop: only the top event is popped.
PopOne(inputStack, events) == <<inputStack, events>>

\* The while loop of undo: events are popped from the input stack as long as
\* the first popped event has a group and the top of the stack shares it.
RECURSIVE PopGroup(_, _)
PopGroup(inputStack, events) ==
  IF inputStack # <<>> /\ events[1].group # NoGroup
     /\ events[1].group = Last(inputStack).group
    THEN PopGroup(Front(inputStack), Append(events, Last(inputStack)))
    ELSE <<inputStack, events>>

\* The loop over the batch, walking it from its last event to its first.
RECURSIVE RunEventsFromEnd(_, _, _, _)
RunEventsFromEnd(s, events, redo, i) ==
  IF s.err # NoErr \/ i > Len(events) THEN s
  ELSE RunEventsFromEnd(run(s, events[Len(events) + 1 - i], redo), events, redo, i + 1)

\* for (var i = 0, event; event = events[i]; i++) { event.run(redo); }
RECURSIVE RunEvents(_, _, _, _)
RunEvents(s, events, redo, i) ==
  IF s.err # NoErr \/ i > Len(events) THEN s
  ELSE RunEvents(run(s, events[i], redo), events, redo, i + 1)

\* undo without "Blockly.Events.recordUndo = false" before the replay.
undoRecording(s, redo) ==
  LET inputStack == IF redo THEN s.redoStack_ ELSE s.undoStack_
      outputStack == IF redo THEN s.undoStack_ ELSE s.redoStack_
      Replay(s2, events) ==
        [RunEvents(s2, Events_filter(events, redo), redo, 1) EXCEPT !.recordUndo = TRUE]
      Move(popped) ==
        Replay(IF redo
                 THEN [s EXCEPT !.redoStack_ = popped[1],
                                !.undoStack_ = outputStack \o popped[2]]
                 ELSE [s EXCEPT !.undoStack_ = popped[1],
                                !.redoStack_ = outputStack \o popped[2]],
               popped[2])
  IN IF s.err # NoErr \/ inputStack = <<>> THEN s
     ELSE Move(PopGroup(Front(inputStack), <<Last(inputStack)>>))

\* undo calling event.run(false) whatever redo is.
undoBackwardOnly(s, redo) ==
  LET inputStack == IF redo THEN s.redoStack_ ELSE s.undoStack_
      outputStack == IF redo THEN s.undoStack_ ELSE s.redoStack_
      Replay(s2, events) ==
        [RunEvents(s2, Events_filter(events, redo), FALSE, 1) EXCEPT !.recordUndo = TRUE]
      Move(popped) ==
        Replay(IF redo
                 THEN [s EXCEPT !.redoStack_ = popped[1],
                                !.undoStack_ = outputStack \o popped[2],
                                !.recordUndo = FALSE]
                 ELSE [s EXCEPT !.undoStack_ = popped[1],
                                !.redoStack_ = outputStack \o popped[2],
                                !.recordUndo = FALSE],
               popped[2])
  IN IF s.err # NoErr \/ inputStack = <<>> THEN s
     ELSE Move(PopGroup(Front(inputStack), <<Last(inputStack)>>))

\* undo pushing only the first popped event on the opposite stack.
undoPushingOne(s, redo) ==
  LET inputStack == IF redo THEN s.redoStack_ ELSE s.undoStack_
      outputStack == IF redo THEN s.undoStack_ ELSE s.redoStack_
      Replay(s2, events) ==
        [RunEvents(s2, Events_filter(events, redo), redo, 1) EXCEPT !.recordUndo = TRUE]
      Move(popped) ==
        Replay(IF redo
                 THEN [s EXCEPT !.redoStack_ = popped[1],
                                !.undoStack_ = Append(outputStack, popped[2][1]),
                                !.recordUndo = FALSE]
                 ELSE [s EXCEPT !.undoStack_ = popped[1],
                                !.redoStack_ = Append(outputStack, popped[2][1]),
                                !.recordUndo = FALSE],
               popped[2])
  IN IF s.err # NoErr \/ inputStack = <<>> THEN s
     ELSE Move(PopGroup(Front(inputStack), <<Last(inputStack)>>))

\* undo setting recordUndo to true only when the replay has not thrown.
undoWithoutFinally(s, redo) ==
  LET inputStack == IF redo THEN s.redoStack_ ELSE s.undoStack_
      outputStack == IF redo THEN s.undoStack_ ELSE s.redoStack_
      Replay(s2, events) ==
        LET ran == RunEvents(s2, Events_filter(events, redo), redo, 1)
        IN IF ran.err # NoErr THEN ran ELSE [ran EXCEPT !.recordUndo = TRUE]
      Move(popped) ==
        Replay(IF redo
                 THEN [s EXCEPT !.redoStack_ = popped[1],
                                !.undoStack_ = outputStack \o popped[2],
                                !.recordUndo = FALSE]
                 ELSE [s EXCEPT !.undoStack_ = popped[1],
                                !.redoStack_ = outputStack \o popped[2],
                                !.recordUndo = FALSE],
               popped[2])
  IN IF s.err # NoErr \/ inputStack = <<>> THEN s
     ELSE Move(PopGroup(Front(inputStack), <<Last(inputStack)>>))

\* Workspace.undo(redo)
undo(s, redo) ==
  LET inputStack == IF redo THEN s.redoStack_ ELSE s.undoStack_
      outputStack == IF redo THEN s.undoStack_ ELSE s.redoStack_
      Replay(s2, events) ==
        [RunEvents(s2, Events_filter(events, redo), redo, 1) EXCEPT !.recordUndo = TRUE]
      Move(popped) ==
        Replay(IF redo
                 THEN [s EXCEPT !.redoStack_ = popped[1],
                                !.undoStack_ = outputStack \o popped[2],
                                !.recordUndo = FALSE]
                 ELSE [s EXCEPT !.undoStack_ = popped[1],
                                !.redoStack_ = outputStack \o popped[2],
                                !.recordUndo = FALSE],
               popped[2])
  IN IF s.err # NoErr \/ inputStack = <<>> THEN s
     ELSE Move(PopGroup(Front(inputStack), <<Last(inputStack)>>))

\* ------------------------------------------------------------- the dragger
\* The block at the end of the stack that starts with block b.
RECURSIVE LastInStack(_, _, _)
LastInStack(s, b, steps) ==
  IF steps = 0 \/ getNextBlock(s, b) = NoBlock THEN b
  ELSE LastInStack(s, getNextBlock(s, b), steps - 1)

\* DraggedConnectionManager: the connections of the dragged stack that can
\* take a new partner: the output or previous connection of the dragged
\* block and the free next connection at the end of its stack.
ExposedConnections(s, b) ==
  {c \in {<<b, "output">>, <<b, "previous">>} : s.conns[c].exists /\ ~isConnected(s, c)}
  \cup {c \in {<<LastInStack(s, b, MaxBlocks), "next">>} :
          s.conns[c].exists /\ ~isConnected(s, c)}

\* DraggedConnectionManager: the pairs of an exposed connection and a
\* connection of a block that is not dragged which may be joined: the kinds
\* and the checks are compatible, and the other connection neither belongs
\* to a dragged block nor is attached to one.  Which of them are within the
\* radius, and which is the nearest, depends on where the pointer is.
Candidates(s, b) ==
  LET dragged == Range(getDescendants(s, b).blocks)
  IN {pair \in ExposedConnections(s, b) \X ConnIds :
        /\ pair[2][1] \in s.blockDB_ \ dragged
        /\ targetBlock(s, pair[2]) \notin dragged
        /\ canConnect(s, pair[1], pair[2])}

\* DraggedConnectionManager.update(delta, deleteArea): the nearest candidate
\* at the place the pointer is (nearest, an input), or none; the block would
\* be deleted when the pointer is over a deletion zone and there is no
\* candidate.  Nothing but the manager changes.
DraggedConnectionManager_update(s, nearest, deleteArea) ==
  [s EXCEPT !.dragger.closest = nearest,
            !.dragger.managerWouldDelete =
               (deleteArea # DELETE_AREA_NONE /\ nearest = NoCandidate)]

\* DraggedConnectionManager.wouldDeleteBlock
wouldDeleteBlock(s) == s.dragger.managerWouldDelete

\* DraggedConnectionManager.applyConnections: the previewed pair is joined,
\* if there is one.
applyConnections(s) ==
  IF s.err # NoErr \/ s.dragger.closest = NoCandidate THEN s
  ELSE connect(s, s.dragger.closest[1], s.dragger.closest[2])

\* new Blockly.BlockDragger(block, workspace)
BlockDragger(s, block) ==
  [s EXCEPT !.dragger = [NoDragger EXCEPT !.draggingBlock_ = block,
                                          !.base = Len(s.undoStack_),
                                          !.before = [blockDB_ |-> s.blockDB_,
                                                      conns |-> s.conns]]]

\* BlockDragger.dispose
BlockDragger_dispose(s) ==
  IF s.err # NoErr THEN s
  ELSE [s EXCEPT !.dragger.draggingBlock_ = NoBlock,
                 !.dragger.closest = NoCandidate,
                 !.dragger.managerWouldDelete = FALSE]

\* startBlockDrag that opens no group before it unplugs the block.
startBlockDragUngrouped(s, healStack) ==
  LET b == s.dragger.draggingBlock_
  IN IF s.err # NoErr THEN s
     ELSE IF s.blocks[b].parentBlock_ # NoBlock
             \/ (healStack /\ s.conns[<<b, "next">>].exists
                  /\ targetBlock(s, <<b, "next">>) # NoBlock)
            THEN unplug(s, b, healStack)
            ELSE s

\* BlockDragger.startBlockDrag(currentDragDeltaXY, healStack)
startBlockDrag(s, healStack) ==
  LET b == s.dragger.draggingBlock_
      Detach(s1) ==
        IF s1.blocks[b].parentBlock_ # NoBlock
           \/ (healStack /\ s1.conns[<<b, "next">>].exists
                /\ targetBlock(s1, <<b, "next">>) # NoBlock)
          THEN unplug(s1, b, healStack)
          ELSE s1
  IN IF s.err # NoErr THEN s
     ELSE Detach(IF getGroup(s) = NoGroup THEN setGroup(s, TRUE) ELSE s)

\* BlockDragger.updateCursorDuringBlockDrag_
updateCursorDuringBlockDrag_(s) ==
  [s EXCEPT !.dragger.wouldDeleteBlock_ = wouldDeleteBlock(s)]

\* dragBlock joining the previewed pair at once.
dragBlockApplying(s, deleteArea, nearest) ==
  IF s.err # NoErr THEN s
  ELSE applyConnections(
         updateCursorDuringBlockDrag_(
           DraggedConnectionManager_update([s EXCEPT !.dragger.deleteArea_ = deleteArea],
                                           nearest, deleteArea)))

\* BlockDragger.dragBlock(e, currentDragDeltaXY): deleteArea is what
\* workspace.isDeleteArea(e) returns, nearest what the manager finds there.
dragBlock(s, deleteArea, nearest) ==
  IF s.err # NoErr THEN s
  ELSE updateCursorDuringBlockDrag_(
         DraggedConnectionManager_update([s EXCEPT !.dragger.deleteArea_ = deleteArea],
                                         nearest, deleteArea))

\* BlockDragger.fireMoveEvent_: a Move of the dragged block whose old
\* coordinate is startXY_ and whose new place is where the block is now (the
\* start coordinate again when the pointer has not moved).
fireMoveEvent_(s, moved) ==
  IF s.err # NoErr THEN s
  ELSE Events_fire(s, [recordNew(s, BlockMove(s, s.dragger.draggingBlock_)) EXCEPT
                         !.oldValue = "startXY_",
                         !.newValue = IF moved THEN "newLoc" ELSE "startXY_"])

\* BlockDragger.maybeDeleteBlock_
maybeDeleteBlock_(s, moved) ==
  IF s.err # NoErr THEN s
  ELSE IF s.dragger.wouldDeleteBlock_
    THEN dispose(fireMoveEvent_(s, moved), s.dragger.draggingBlock_, FALSE)
  ELSE s

\* endBlockDrag without the call of dragBlock that refreshes the candidate
\* and the delete flag.
endBlockDragStale(s, deleteArea, nearest, moved) ==
  LET Drop(s1) ==
        IF s1.err # NoErr \/ s1.dragger.wouldDeleteBlock_ THEN s1
        ELSE fireMoveEvent_(applyConnections(s1), moved)
      Close(s2) == IF s2.err # NoErr THEN s2 ELSE setGroup(s2, FALSE)
  IN Close(Drop(maybeDeleteBlock_(s, moved)))

\* BlockDragger.endBlockDrag(e, currentDragDeltaXY); moved tells whether
\* currentDragDeltaXY is not zero.
endBlockDrag(s, deleteArea, nearest, moved) ==
  LET Drop(s1) ==
        IF s1.err # NoErr \/ s1.dragger.wouldDeleteBlock_ THEN s1
        ELSE fireMoveEvent_(applyConnections(s1), moved)
      Close(s2) == IF s2.err # NoErr THEN s2 ELSE setGroup(s2, FALSE)
  IN Close(Drop(maybeDeleteBlock_(dragBlock(s, deleteArea, nearest), moved)))

\* ----------------------------------------------------------------- actions
Init ==
  /\ blocks = [b \in BlockIds |-> NoBlockRec]
  /\ conns = [c \in ConnIds |-> NoConnection]
  /\ blockDB_ = {}
  /\ topBlocks_ = <<>>
  /\ undoStack_ = <<>>
  /\ redoStack_ = <<>>
  /\ listeners_ = <<>>
  /\ Events_group = NoGroup
  /\ Events_recordUndo = TRUE
  /\ Events_disabled = 0
  /\ op = <<"init">>
  /\ heard = <<>>
  /\ runLog = <<>>
  /\ cleared = 0
  /\ thrown = NoErr
  /\ otherWorkspace = EmptyWorkspace
  /\ dragger = NoDragger

\* The construction numbers are an observation, and only their order is
\* meant; a group id is a fresh unique string, and only its identity is
\* meant.  A step renumbers the events the stacks hold 1, 2, ... in the order
\* of their numbers, and names the groups 1, 2, ... in the order the stacks,
\* the current group and the events reported by the step first mention them.
Rank(ids, i) == Cardinality({j \in ids : j <= i})
StackIds(s) == {e.id : e \in StackEvents(s)} \ {0}
GroupsOf(q) == [k \in 1..Len(q) |-> q[k].group]
Mentions(s) ==
  GroupsOf(s.undoStack_) \o GroupsOf(s.redoStack_) \o <<s.group_>>
    \o [k \in 1..Len(s.heard) |-> s.heard[k].event.group]
    \o [k \in 1..Len(s.runLog) |-> s.runLog[k].event.group]
    \o [k \in 1..Len(s.heard) |-> s.heard[k].group]
FirstAt(gs, g) == Min({k \in 1..Len(gs) : gs[k] = g})
GroupName(gs, g) ==
  IF g = NoGroup THEN NoGroup
  ELSE Cardinality({FirstAt(gs, h) : h \in Range(gs) \ {NoGroup}}
                     \cap 1..FirstAt(gs, g))
Renumber(e, s) ==
  [e EXCEPT !.id = Rank(StackIds(s), e.id),
            !.group = GroupName(Mentions(s), e.group)]
RenumberAll(q, s) == [k \in 1..Len(q) |-> Renumber(q[k], s)]

\* The step that performs operation o and leaves the program state s.  A
\* step that would exceed a bound of the model is not taken.
Commit(s, o) ==
  /\ Len(s.undoStack_) + Len(s.redoStack_) <= MaxEvents
  /\ Len(s.listeners_) <= MaxListeners
  /\ s.err \notin {"MODEL: no block id left", "MODEL: no input place left"}
  /\ blocks' = s.blocks
  /\ conns' = s.conns
  /\ blockDB_' = s.blockDB_
  /\ topBlocks_' = s.topBlocks_
  /\ undoStack_' = RenumberAll(s.undoStack_, s)
  /\ redoStack_' = RenumberAll(s.redoStack_, s)
  /\ listeners_' = s.listeners_
  /\ Events_group' = GroupName(Mentions(s), s.group_)
  /\ Events_recordUndo' = s.recordUndo
  /\ Events_disabled' = s.disabled_
  /\ op' = o
  /\ heard' = [k \in 1..Len(s.heard) |->
                 [s.heard[k] EXCEPT !.event = Renumber(@, s),
                                    !.group = GroupName(Mentions(s), @)]]
  /\ runLog' = [k \in 1..Len(s.runLog) |->
                  [s.runLog[k] EXCEPT !.event = Renumber(@, s)]]
  /\ cleared' = s.cleared
  /\ thrown' = s.err
  /\ otherWorkspace' = otherWorkspace
  /\ dragger' = s.dragger

\* The step that performs operation o on the second workspace and leaves the
\* program state s.  The second workspace records no event in this model.
CommitOther(s, o) ==
  /\ s.undoStack_ = <<>> /\ s.redoStack_ = <<>>
  /\ s.err \notin {"MODEL: no block id left", "MODEL: no input place left"}
  /\ otherWorkspace' = [blocks |-> s.blocks, conns |-> s.conns, blockDB_ |-> s.blockDB_,
               topBlocks_ |-> s.topBlocks_, undoStack_ |-> s.undoStack_,
               redoStack_ |-> s.redoStack_, listeners_ |-> s.listeners_]
  /\ Events_group' = s.group_
  /\ Events_recordUndo' = s.recordUndo
  /\ Events_disabled' = s.disabled_
  /\ op' = o
  /\ heard' = <<>>
  /\ runLog' = <<>>
  /\ cleared' = 0
  /\ thrown' = s.err
  /\ UNCHANGED <<blocks, conns, blockDB_, topBlocks_, undoStack_, redoStack_, listeners_,
                 dragger>>

\* The blocks an object exists for, and those still in the workspace.
Made == {b \in BlockIds : blocks[b].made}
Live == {b \in BlockIds : blocks[b].workspace}
LiveConns == {c \in ConnIds : c[1] \in Live /\ conns[c].exists}

\* No event is on the stacks.
Quiet == undoStack_ = <<>> /\ redoStack_ = <<>>

\* workspace.newBlock(type), for a type among types, while fewer than limit
\* blocks are registered
NewBlock(types, limit) ==
  \E type \in types :
    /\ Cardinality(blockDB_) < limit
    /\ Commit(newBlock(Cur, type, NoBlock), <<"newBlock", type>>)

\* a.connect(b), for two connections that are not attached
Connect ==
  \E a \in LiveConns, b \in LiveConns :
    /\ conns[a].targetConnection = NoConn
    /\ conns[b].targetConnection = NoConn
    /\ a # b
    /\ Commit(connect(Cur, a, b), <<"connect">>)

\* c.disconnect()
Disconnect ==
  \E c \in LiveConns :
    /\ conns[c].targetConnection # NoConn
    /\ Commit(disconnect(Cur, c), <<"disconnect">>)

\* block.unplug(healStack)
Unplug ==
  \E b \in Live, healStack \in BOOLEAN :
    Commit(unplug(Cur, b, healStack), <<"unplug", healStack>>)

\* block.dispose(healStack), also on a block that is disposed of already
Dispose ==
  \E b \in Made, healStack \in BOOLEAN :
    Commit(dispose(Cur, b, healStack), <<"dispose", healStack>>)

\* block.setDisabled(disabled)
SetDisabled ==
  \E b \in Live, disabled \in BOOLEAN :
    Commit(setDisabled(Cur, b, disabled), <<"setDisabled">>)

\* Blockly.Events.setGroup(true) / setGroup(false)
SetGroup ==
  \E state \in BOOLEAN :
    Commit(setGroup(Cur, state), <<"setGroup", state>>)

\* workspace.undo(redo)
Undo ==
  \E redo \in BOOLEAN :
    Commit(undo(Cur, redo), <<"undo", redo>>)

\* workspace.clearUndo()
ClearUndo ==
  /\ undoStack_ # <<>> \/ redoStack_ # <<>>
  /\ Commit(clearUndo(Cur), <<"clearUndo">>)

\* workspace.newBlock(type, opt_id), opt_id being an id or absent
NewBlockWithId ==
  \E opt_id \in BlockIds \cup {NoBlock} :
    Commit(newBlock(Cur, "stmt", opt_id), <<"newBlock", "stmt", opt_id>>)

\* workspace.newBlock(type, opt_id), type being a defined block type or a
\* name Blockly.Blocks has no entry for, opt_id being an id or absent
NewBlockOfType ==
  \E type \in {"stmt", "nosuch"}, opt_id \in BlockIds \cup {NoBlock} :
    /\ Cardinality(blockDB_) < MaxLogBlocks
    /\ Commit(newBlock(Cur, type, opt_id), <<"newBlock", type, opt_id>>)

\* otherWorkspace.newBlock(type, opt_id), opt_id being an id or absent
OtherNewBlock ==
  \E opt_id \in BlockIds \cup {NoBlock} :
    CommitOther(newBlock(OtherCur, "stmt", opt_id), <<"other.newBlock", "stmt", opt_id>>)

\* block.dispose(false), on a block of the second workspace
OtherDispose ==
  \E b \in otherWorkspace.blockDB_ :
    CommitOther(dispose(OtherCur, b, FALSE), <<"other.dispose", b>>)

\* A gesture starts to drag a block: new Blockly.BlockDragger(block, workspace)
\* and startBlockDrag(currentDragDeltaXY, healStack)
StartBlockDrag ==
  \E b \in Live, healStack \in BOOLEAN :
    /\ dragger.draggingBlock_ = NoBlock
    /\ Commit(startBlockDrag(BlockDragger(Cur, b), healStack),
              <<"startBlockDrag", b, healStack>>)

\* What the connection manager can find nearest to the pointer while a block
\* is dragged: one of the candidates, or nothing.
Nearby ==
  IF dragger.draggingBlock_ = NoBlock THEN {}
  ELSE Candidates(Cur, dragger.draggingBlock_) \cup {NoCandidate}

\* The pointer moves: dragBlock(e, currentDragDeltaXY), the pointer being
\* over the trash can or not, near a candidate or near none
DragBlock ==
  \E deleteArea \in {DELETE_AREA_NONE, DELETE_AREA_TRASH},
     nearest \in Nearby :
    /\ dragger.draggingBlock_ # NoBlock
    /\ Commit(dragBlock(Cur, deleteArea, nearest), <<"dragBlock", deleteArea, nearest>>)

\* The pointer is released: endBlockDrag(e, currentDragDeltaXY), after which
\* the gesture disposes of the dragger
EndBlockDrag ==
  \E deleteArea \in {DELETE_AREA_NONE, DELETE_AREA_TRASH},
     nearest \in Nearby,
     moved \in BOOLEAN :
    /\ dragger.draggingBlock_ # NoBlock
    /\ Commit(BlockDragger_dispose(endBlockDrag(Cur, deleteArea, nearest, moved)),
              <<"endBlockDrag", deleteArea, nearest, dragger.draggingBlock_>>)

\* workspace.clear()
Clear ==
  Commit(clear(Cur), <<"clear">>)

\* block.setCommentText(text), text being null, '' or a text
SetCommentText ==
  \E b \in Live, text \in {"null", "", "a"} :
    Commit(setCommentText(Cur, b, text), <<"setCommentText">>)

\* workspace.addChangeListener(func)
AddChangeListener ==
  \E func \in ListenerIds \ Range(listeners_) :
    /\ Len(listeners_) < MaxListeners
    /\ Commit(addChangeListener(Cur, func), <<"addChangeListener">>)

\* workspace.addChangeListener(func), func being the listener that sets a
\* comment text
AddAnnotator ==
  /\ Annotator \notin Range(listeners_)
  /\ Len(listeners_) < MaxListeners
  /\ Commit(addChangeListener(Cur, Annotator), <<"addChangeListener">>)

\* workspace.removeChangeListener(func)
RemoveChangeListener ==
  \E func \in Range(listeners_) :
    Commit(removeChangeListener(Cur, func), <<"removeChangeListener">>)

\* Blockly.Events.recordUndo = value, as a caller does around changes that
\* are not to be undoable
SetRecordUndo ==
  \E value \in BOOLEAN :
    /\ Events_recordUndo # value
    /\ Commit([Cur EXCEPT !.recordUndo = value], <<"recordUndo">>)

\* workspace.fireChangeListener(new Blockly.Events.BlockChange(block,
\* 'disabled', null, block.disabled, newValue)), called directly
FireChangeListener ==
  \E b \in Live, newValue \in BOOLEAN :
    Commit(fireChangeListener(Cur, BlockChange(Cur, b, "disabled",
                                     BoolText(blocks[b].disabled), BoolText(newValue))),
           <<"fireChangeListener">>)

\* block.removeInput(name, opt_quiet), for the name of an input and for a
\* name no input has
RemoveInput ==
  \E b \in Live, name \in {"IF0", "NONE"}, opt_quiet \in BOOLEAN :
    Commit(removeInput(Cur, b, name, opt_quiet), <<"removeInput", name>>)

\* The block has a place left for one more input.
FreeInputPlace(b) ==
  \E slot \in {"in1", "in2"} :
    \A i \in 1..Len(blocks[b].inputList) : blocks[b].inputList[i].slot # slot

\* block.appendValueInput(name)
AppendValueInput ==
  \E b \in Live, name \in {"IF0", "DO0"} :
    /\ FreeInputPlace(b)
    /\ Commit(appendValueInput(Cur, b, name), <<"appendValueInput", b, name>>)

\* block.appendStatementInput(name)
AppendStatementInput ==
  \E b \in Live, name \in {"IF0", "DO0"} :
    /\ FreeInputPlace(b)
    /\ Commit(appendStatementInput(Cur, b, name), <<"appendStatementInput", b, name>>)

\* block.appendDummyInput(opt_name), with a name
AppendDummyInput ==
  \E b \in Live, opt_name \in {"IF0", "DO0"} :
    /\ FreeInputPlace(b)
    /\ Commit(appendDummyInput(Cur, b, opt_name), <<"appendDummyInput", b, opt_name>>)

\* block.setShadow(shadow), on a value block
SetShadow ==
  \E b \in Live, shadow \in BOOLEAN :
    /\ conns[<<b, "output">>].exists
    /\ blocks[b].isShadow_ # shadow
    /\ Commit(setShadow(Cur, b, shadow), <<"setShadow">>)

\* Blockly.Events.disable(), as a caller does before it builds or loads blocks
\* that are not to be reported
EventsDisable ==
  /\ Events_disabled = 0
  /\ Commit(Events_disable(Cur), <<"disable">>)

\* Blockly.Events.enable()
EventsEnable ==
  /\ Events_disabled > 0
  /\ Commit(Events_enable(Cur), <<"enable">>)

\* block.setOutput(newBoolean)
SetOutput ==
  \E b \in Live, newBoolean \in BOOLEAN :
    Commit(setOutput(Cur, b, newBoolean, NullCheck), <<"setOutput", b, newBoolean>>)

\* block.setPreviousStatement(newBoolean)
SetPreviousStatement ==
  \E b \in Live, newBoolean \in BOOLEAN :
    Commit(setPreviousStatement(Cur, b, newBoolean, NullCheck),
           <<"setPreviousStatement", b, newBoolean>>)

\* block.setNextStatement(newBoolean)
SetNextStatement ==
  \E b \in Live, newBoolean \in BOOLEAN :
    Commit(setNextStatement(Cur, b, newBoolean, NullCheck),
           <<"setNextStatement", b, newBoolean>>)

\* block.setParent(newParent), called directly, newParent being a block of
\* the workspace or null
SetParent ==
  \E b \in Live, newParent \in Live \cup {NoBlock} :
    Commit(setParent(Cur, b, newParent), <<"setParent", b, newParent>>)

\* block.setOutput(true, opt_check), on a block that has an output
\* connection, opt_check being null or ['B']
SetOutputCheck ==
  \E b \in Live, opt_check \in {NullCheck, {"B"}} :
    /\ conns[<<b, "output">>].exists
    /\ Commit(setOutput(Cur, b, TRUE, opt_check), <<"setOutput", b, TRUE>>)

\* block.setPreviousStatement(true, opt_check), on a block that has a
\* previous connection, opt_check being null or ['B']
SetPreviousStatementCheck ==
  \E b \in Live, opt_check \in {NullCheck, {"B"}} :
    /\ conns[<<b, "previous">>].exists
    /\ Commit(setPreviousStatement(Cur, b, TRUE, opt_check),
              <<"setPreviousStatement", b, TRUE>>)

\* block.setNextStatement(true, opt_check), on a block that has a next
\* connection, opt_check being null or ['A']
SetNextStatementCheck ==
  \E b \in Live, opt_check \in {NullCheck, {"A"}} :
    /\ conns[<<b, "next">>].exists
    /\ Commit(setNextStatement(Cur, b, TRUE, opt_check),
              <<"setNextStatement", b, TRUE>>)

\* ------------------------------------------------------------ the event log
\* Blocks are created, flagged, joined and separated, with and without an
\* open group, and the log is undone and redone.
LogCap == Len(undoStack_) + Len(redoStack_) <= MaxLogEvents

NextLog ==
  \/ NewBlock({"stmt"}, MaxLogBlocks) /\ LogCap'
  \/ SetDisabled /\ LogCap'
  \/ SetGroup /\ LogCap'
  \/ Undo /\ LogCap'

SpecLog == Init /\ [][NextLog]_vars

\* ------------------------------------------------- recording and listeners
\* One block is created and changed, events are delivered directly, listeners
\* come and go, recording is switched off and on, and the log is undone and
\* redone.
NextFire ==
  \/ NewBlock({"stmt"}, 1) /\ LogCap'
  \/ FireChangeListener /\ LogCap'
  \/ AddChangeListener /\ LogCap'
  \/ RemoveChangeListener /\ LogCap'
  \/ SetRecordUndo /\ LogCap'
  \/ Undo /\ LogCap'

SpecFire == Init /\ [][NextFire]_vars

\* ---------------------------------------------------------------- the graph
\* Events are disabled, and statement, input and value blocks are created, joined,
\* separated, unplugged, disposed of and stripped of an input.  No event is
\* recorded meanwhile.
NextGraph ==
  \/ EventsDisable /\ Quiet'
  \/ NewBlock({"stmt", "if", "print"}, MaxBlocks) /\ Quiet'
  \/ Connect /\ Quiet'
  \/ Disconnect /\ Quiet'
  \/ Unplug /\ Quiet'
  \/ Dispose /\ Quiet'
  \/ RemoveInput /\ Quiet'
  \/ SetShadow /\ Quiet'

SpecGraph == Init /\ [][NextGraph]_vars

\* ----------------------------------------------------- the shape of a block
\* Events are disabled; statement and value blocks are created and joined,
\* and their output, previous and next connections are added and removed in
\* every order.
NextShape ==
  \/ EventsDisable /\ Quiet'
  \/ NewBlock({"stmt", "print"}, MaxShapeBlocks) /\ Quiet'
  \/ SetOutput /\ Quiet'
  \/ SetPreviousStatement /\ Quiet'
  \/ SetNextStatement /\ Quiet'
  \/ Connect /\ Quiet'

SpecShape == Init /\ [][NextShape]_vars

\* -------------------------------------------------------------- reparenting
\* Events are disabled; statement blocks are created, joined, separated,
\* unplugged and disposed of, and setParent is also called directly.
NextParent ==
  \/ EventsDisable /\ Quiet'
  \/ NewBlock({"stmt"}, MaxParentBlocks) /\ Quiet'
  \/ SetParent /\ Quiet'
  \/ Connect /\ Quiet'
  \/ Disconnect /\ Quiet'
  \/ Unplug /\ Quiet'
  \/ Dispose /\ Quiet'

SpecParent == Init /\ [][NextParent]_vars

\* ---------------------------------------------------------- the check lists
\* Events are disabled; statement blocks, a block with a typed value input
\* and a value block are created, joined and unplugged, and the check
\* lists of their connections are replaced while they are attached.
NextCheck ==
  \/ EventsDisable /\ Quiet'
  \/ NewBlock({"stmt"}, MaxCheckBlocks) /\ Quiet'
  \/ NewBlock({"while", "print"}, MaxValueBlocks) /\ Quiet'
  \/ Connect /\ Quiet'
  \/ Unplug /\ Quiet'
  \/ SetOutputCheck /\ Quiet'
  \/ SetPreviousStatementCheck /\ Quiet'
  \/ SetNextStatementCheck /\ Quiet'

SpecCheck == Init /\ [][NextCheck]_vars

\* ----------------------------------------------------------------- disposal
\* Recording is switched off and a listener is registered; input, value
\* and statement blocks are created, joined and disposed of, a block that
\* is disposed of already included, and the listener is told of every event.
NextDispose ==
  \/ SetRecordUndo /\ Quiet'
  \/ AddChangeListener /\ listeners_' = <<"observer">> /\ Quiet'
  \/ NewBlock({"stmt", "if", "print"}, MaxBlocks) /\ Quiet'
  \/ Connect /\ Quiet'
  \/ Dispose /\ Quiet'

SpecDispose == Init /\ [][NextDispose]_vars

\* ----------------------------------------------------------- the top blocks
\* Events are disabled; statement blocks are created, joined, separated,
\* unplugged and disposed of, setParent(null) is called directly, and the
\* workspace is cleared.
NextTop ==
  \/ EventsDisable /\ Quiet'
  \/ NewBlock({"stmt"}, MaxTopBlocks) /\ Quiet'
  \/ Connect /\ Quiet'
  \/ Disconnect /\ Quiet'
  \/ Unplug /\ Quiet'
  \/ SetParent /\ op'[3] = NoBlock /\ Quiet'
  \/ Dispose /\ Quiet'
  \/ Clear /\ Quiet'

SpecTop == Init /\ [][NextTop]_vars

\* ------------------------------------------------------------ the block ids
\* Events are disabled; in two workspaces blocks are created, with a
\* requested id and without, and disposed of.
NextIds ==
  \/ EventsDisable /\ Quiet'
  \/ NewBlockWithId /\ Quiet'
  \/ OtherNewBlock /\ Quiet'
  \/ Dispose /\ Quiet'
  \/ OtherDispose /\ Quiet'

SpecIds == Init /\ [][NextIds]_vars

\* ----------------------------------------------------------------- dragging
\* Statement blocks are created and dragged: a drag starts with or without
\* healing, inside an open group or not, the pointer moves over candidates
\* and the trash can, and the block is dropped.  The log is emptied before
\* the next block is created and before the next drag starts, so it holds
\* the events of one gesture at most.
DragCap == Len(undoStack_) + Len(redoStack_) <= MaxDragEvents
Idle == dragger.draggingBlock_ = NoBlock

NextDrag ==
  \/ Idle /\ Quiet /\ NewBlock({"stmt"}, MaxDragBlocks) /\ DragCap'
  \/ Idle /\ Quiet /\ SetGroup /\ Events_group' # Events_group /\ DragCap'
  \/ Idle /\ ClearUndo /\ DragCap'
  \/ Quiet /\ StartBlockDrag /\ DragCap'
  \/ DragBlock /\ DragCap'
  \/ EndBlockDrag /\ DragCap'

SpecDrag == Init /\ [][NextDrag]_vars

\* ------------------------------------------------------------------- inputs
\* Events are disabled; blocks with an input of their own are
\* created, and inputs are appended to them by name and removed.
NextInput ==
  \/ EventsDisable /\ Quiet'
  \/ NewBlock({"if"}, MaxValueBlocks) /\ Quiet'
  \/ AppendValueInput /\ Quiet'
  \/ AppendStatementInput /\ Quiet'
  \/ AppendDummyInput /\ Quiet'
  \/ RemoveInput /\ Quiet'

SpecInput == Init /\ [][NextInput]_vars

\* ------------------------------------------------------ listeners that fire
\* Listeners are registered, among them the one that sets a comment text
\* when it is told of a new block; groups are opened and closed, events are
\* disabled and enabled, and statement blocks are created.
NestCap == Len(undoStack_) + Len(redoStack_) <= MaxNestEvents

NextNest ==
  \/ AddChangeListener /\ NestCap'
  \/ AddAnnotator /\ NestCap'
  \/ EventsDisable /\ NestCap'
  \/ EventsEnable /\ NestCap'
  \/ SetGroup /\ Events_group' # Events_group /\ NestCap'
  \/ NewBlock({"stmt"}, MaxLogBlocks) /\ NestCap'

SpecNest == Init /\ [][NextNest]_vars

\* ------------------------------------------------------ disposal in a stack
\* Events are disabled; input blocks, value blocks and statement blocks
\* whose previous and next connections take different types are created,
\* joined and disposed of, with and without healing.
NextHeal ==
  \/ EventsDisable /\ Quiet'
  \/ NewBlock({"typed", "if", "print"}, MaxBlocks) /\ Quiet'
  \/ Connect /\ thrown' = NoErr /\ Quiet'
  \/ Dispose /\ Quiet'

SpecHeal == Init /\ [][NextHeal]_vars

\* ------------------------------------------------------------------ editing
\* With events disabled, statement blocks are created and joined unrecorded;
\* events are enabled, and blocks are created, joined, separated, flagged
\* and disposed of recorded, with and without an open group, and the log is
\* undone and redone.  Events are not disabled again once an event is
\* recorded, so the log holds every change made since.  Only the calls that
\* change something are taken.
EditCap == Len(undoStack_) + Len(redoStack_) <= MaxEditEvents
Recording == Events_disabled = 0

NextEdit ==
  \/ EventsDisable /\ Quiet'
  \/ EventsEnable /\ EditCap'
  \/ NewBlock({"stmt"}, MaxLogBlocks) /\ EditCap'
  \/ Connect /\ thrown' = NoErr /\ EditCap'
  \/ Recording /\ Disconnect /\ EditCap'
  \/ Recording /\ Dispose /\ blockDB_' # blockDB_ /\ EditCap'
  \/ Recording /\ SetDisabled /\ blocks' # blocks /\ EditCap'
  \/ Recording /\ SetGroup /\ Events_group' # Events_group /\ EditCap'
  \/ Recording /\ Undo /\ EditCap'

SpecEdit == Init /\ [][NextEdit]_vars

\* ------------------------------------------------------- replays that fail
\* With events disabled, statement blocks are created unrecorded; then they
\* are joined, the check lists of their connections are replaced (which
\* detaches a block that no longer fits), and the log is undone and redone.
NextReplay ==
  \/ EventsDisable /\ Quiet'
  \/ EventsEnable /\ EditCap'
  \/ NewBlock({"stmt"}, MaxLogBlocks) /\ EditCap'
  \/ Recording /\ Connect /\ thrown' = NoErr /\ EditCap'
  \/ Recording /\ SetPreviousStatementCheck /\ EditCap'
  \/ Recording /\ SetNextStatementCheck /\ EditCap'
  \/ Recording /\ Undo /\ EditCap'

SpecReplay == Init /\ [][NextReplay]_vars

\* ------------------------------------------------------- unknown block types
\* Blocks of a defined type and of an undefined type are asked for, with a
\* requested id and without, inside an open group or not, a listener
\* listens, and blocks are disposed of.
NextType ==
  \/ NewBlockOfType /\ LogCap'
  \/ AddChangeListener /\ LogCap'
  \/ SetGroup /\ LogCap'
  \/ Dispose /\ LogCap'

SpecType == Init /\ [][NextType]_vars

\* ------------------------------------------------------------------ claims
\* The events of a stack without their group names (a step may rename the
\* groups), their construction numbers, and those of the events a step ran.
Plain(q) == [k \in 1..Len(q) |-> [q[k] EXCEPT !.group = NoGroup]]
Ids(q) == [k \in 1..Len(q) |-> q[k].id]
RunIds(log) == [k \in 1..Len(log) |-> log[k].event.id]
Top(q, k) == SubSeq(q, Len(q) - k + 1, Len(q))
Below(q, k) == SubSeq(q, 1, Len(q) - k)

\* The number of events at the top of the stack q that share the group of
\* its top event.
RunLength(q) ==
  Cardinality({k \in 1..Len(q) : \A j \in k..Len(q) : q[j].group = Last(q).group})

\* The step undid the event log[i]: a created block is gone; a flag has the
\* old value of the earliest change of the batch.
Reverted(log, i) ==
  LET e == log[i].event
  IN /\ e.type = "create" => e.blockId \notin blockDB_'
     /\ (/\ e.type = "change" /\ e.element = "disabled" /\ e.blockId \in blockDB_'
         /\ \A j \in (i + 1)..Len(log) :
              ~(log[j].event.type = "change" /\ log[j].event.blockId = e.blockId))
        => BoolText(blocks'[e.blockId].disabled) = e.oldValue

\* The step redid the event log[i]: a created block is back; a flag has the
\* new value of the latest change of the batch.
Reapplied(log, i) ==
  LET e == log[i].event
  IN /\ e.type = "create" => e.blockId \in blockDB_'
     /\ (/\ e.type = "change" /\ e.element = "disabled" /\ e.blockId \in blockDB_'
         /\ \A j \in (i + 1)..Len(log) :
              ~(log[j].event.type = "change" /\ log[j].event.blockId = e.blockId))
        => BoolText(blocks'[e.blockId].disabled) = e.newValue

\* C1: when the top events of the undo stack are a run sharing one non-empty
\* group, undo(false) pops exactly that run, reverts every event of it and
\* puts it on the redo stack, the events below staying where they are; the
\* undo(true) that follows reapplies every event of the run and puts the run
\* back on the undo stack.
C1_GroupedRunUndoneAndRedone ==
  [][/\ (/\ op'[1] = "undo" /\ ~op'[2]
         /\ undoStack_ # <<>> /\ Last(undoStack_).group # NoGroup)
        => LET k == RunLength(undoStack_)
           IN /\ Plain(undoStack_') = Plain(Below(undoStack_, k))
              /\ Plain(redoStack_') = Plain(redoStack_ \o Reverse(Top(undoStack_, k)))
              /\ RunIds(runLog') = Reverse(Ids(Top(undoStack_, k)))
              /\ \A i \in 1..Len(runLog') :
                   ~runLog'[i].forward /\ Reverted(runLog', i)
              /\ thrown' = NoErr
     /\ (/\ op[1] = "undo" /\ ~op[2] /\ runLog # <<>>
         /\ runLog[1].event.group # NoGroup
         /\ op'[1] = "undo" /\ op'[2])
        => /\ Ids(undoStack_') = Ids(undoStack_) \o Reverse(RunIds(runLog))
           /\ Ids(redoStack_') = Ids(Below(redoStack_, Len(runLog)))
           /\ RunIds(runLog') = Reverse(RunIds(runLog))
           /\ \A i \in 1..Len(runLog') :
                runLog'[i].forward /\ Reapplied(runLog', i)
           /\ thrown' = NoErr
    ]_vars

\* A run of two grouped events has been undone and redone above an event of
\* another group.
C1_Witness ==
  /\ op[1] = "undo" /\ op[2]
  /\ Len(runLog) = 2
  /\ runLog[1].event.group # NoGroup
  /\ runLog[1].event.group = runLog[2].event.group
  /\ Len(undoStack_) = 3
  /\ undoStack_[1].group # undoStack_[2].group
  /\ undoStack_[2].group = undoStack_[3].group

\* The graph of the workspace in the program state s: the registered ids
\* and, of every registered block, its type, its parent, its flag, its
\* comment text, its inputs and its connections with their targets.
GraphOf(s) ==
  [ids |-> s.blockDB_,
   of |-> [b \in BlockIds |->
             IF b \in s.blockDB_
               THEN [type |-> s.blocks[b].type,
                     parentBlock_ |-> s.blocks[b].parentBlock_,
                     children |-> Range(s.blocks[b].childBlocks_),
                     disabled |-> s.blocks[b].disabled,
                     comment |-> getCommentText(s, b),
                     inputList |-> s.blocks[b].inputList,
                     connections |-> [x \in Slots |-> s.conns[<<b, x>>]]]
               ELSE [type |-> "", parentBlock_ |-> NoBlock, children |-> {},
                     disabled |-> FALSE, comment |-> "", inputList |-> <<>>,
                     connections |-> [x \in Slots |-> NoConnection]]],
   top |-> Range(s.topBlocks_)]

\* C2: in every state whose changes are all recorded, undo(false) followed
\* by undo(true) ends without an exception and leaves the graph as it was:
\* the same registered ids, the same parents and connection targets, the
\* same flags and comment texts.
C2_UndoRedoRoundTrip ==
  (Recording /\ undoStack_ # <<>>)
    => /\ undo(undo(Cur, FALSE), TRUE).err = NoErr
       /\ GraphOf(undo(undo(Cur, FALSE), TRUE)) = GraphOf(Cur)

\* A redo has disposed again of a block that was attached below another: it
\* reran the Move and the Delete of a batch, after the undo that had brought
\* the block back.
C2_Witness ==
  /\ op[1] = "undo" /\ op[2]
  /\ Len(runLog) = 2
  /\ runLog[1].event.type = "move"
  /\ runLog[2].event.type = "delete"
  /\ runLog[1].event.oldParent # NoConn
  /\ runLog[2].event.blockId \notin blockDB_
  /\ GraphOf(undo(undo(Cur, FALSE), TRUE)) = GraphOf(Cur)

\* C3: an undo or a redo records nothing and clears nothing: every event a
\* listener is told of during the replay has recordUndo = false and is not
\* on the undo stack, no recording removes an event from the redo stack, and
\* afterwards the two stacks hold the batch, moved from the one to the
\* other, and the remainder as it was.
C3_ReplayIsNotRecorded ==
  [][op'[1] = "undo"
       => /\ cleared' = 0
          /\ \A k \in 1..Len(heard') :
               ~heard'[k].event.recordUndo /\ ~heard'[k].recorded
          /\ IF op'[2]
               THEN LET k == Len(redoStack_) - Len(redoStack_')
                    IN /\ k >= 0
                       /\ Plain(redoStack_') = Plain(Below(redoStack_, k))
                       /\ Plain(undoStack_')
                            = Plain(undoStack_ \o Reverse(Top(redoStack_, k)))
               ELSE LET k == Len(undoStack_) - Len(undoStack_')
                    IN /\ k >= 0
                       /\ Plain(undoStack_') = Plain(Below(undoStack_, k))
                       /\ Plain(redoStack_')
                            = Plain(redoStack_ \o Reverse(Top(undoStack_, k)))
    ]_vars

\* An undo has told a listener of an event of the replay, with events left
\* on both stacks.
C3_Witness ==
  /\ op[1] = "undo" /\ ~op[2]
  /\ heard # <<>>
  /\ runLog # <<>>
  /\ undoStack_ # <<>>
  /\ redoStack_ # <<>>

\* C4 (as stated): the undo stack never holds more than MAX_UNDO events.
C4_StackBounded == Len(undoStack_) <= MAX_UNDO

\* C5: a step that records an event leaves the redo stack empty, and the
\* redo that follows a recording that emptied the redo stack changes nothing.
C5_RecordingEmptiesRedo ==
  [][/\ (cleared' > 0 \/ (op'[1] # "undo" /\ Len(undoStack_') > Len(undoStack_)))
        => redoStack_' = <<>>
     /\ (cleared > 0 /\ op'[1] = "undo" /\ op'[2])
        => /\ UNCHANGED <<blocks, conns, blockDB_, topBlocks_, undoStack_, redoStack_>>
           /\ runLog' = <<>>
    ]_vars

\* A change was recorded while the redo stack held an event, and the redo
\* stack is empty.
C5_Witness ==
  /\ op[1] \in {"setDisabled", "newBlock"}
  /\ cleared > 0
  /\ redoStack_ = <<>>
  /\ undoStack_ # <<>>

\* C6 (as stated): no event for which isNull() is true is on the undo stack.
C6_NoNullEventRecorded ==
  \A k \in 1..Len(undoStack_) : ~isNull(undoStack_[k])

\* C7 (as stated): an event delivered by fireChangeListener is told to every
\* listener; when its recordUndo is false it is not pushed and the redo stack
\* is not cleared; when its recordUndo is true it is on the undo stack, once,
\* when the listeners are called.
C7_DeliveredToEveryListener ==
  op[1] = "fireChangeListener"
    => /\ ~Events_recordUndo
            => \A i \in 1..Len(listeners_) :
                 \E k \in 1..Len(heard) : heard[k].func = listeners_[i]
       /\ \A k \in 1..Len(heard) :
            /\ heard[k].recorded = heard[k].event.recordUndo
            /\ ~heard[k].event.recordUndo => cleared = 0
            /\ heard[k].event.recordUndo
                 => Cardinality({j \in 1..Len(undoStack_) :
                                   undoStack_[j] = heard[k].event}) = 1

\* C8 (as stated): undo and redo both run the batch latest-constructed event
\* first, with forward equal to the redo argument.
C8_LatestFirstBothWays ==
  op[1] = "undo"
    => /\ \A i \in 1..Len(runLog) : runLog[i].forward = op[2]
       /\ \A i \in 1..Len(runLog), j \in 1..Len(runLog) :
            i < j => runLog[i].event.id > runLog[j].event.id

\* C8 (amended): undo runs the batch latest-constructed event first, redo
\* runs it earliest-constructed event first, and each calls run(forward)
\* with forward equal to the redo argument.
C8_UndoLatestFirstRedoEarliestFirst ==
  op[1] = "undo"
    => /\ \A i \in 1..Len(runLog) : runLog[i].forward = op[2]
       /\ \A i \in 1..Len(runLog), j \in 1..Len(runLog) :
            i < j => IF op[2] THEN runLog[i].event.id < runLog[j].event.id
                              ELSE runLog[i].event.id > runLog[j].event.id

\* A redo has run a batch of two events.
C8_Witness ==
  /\ op[1] = "undo" /\ op[2]
  /\ Len(runLog) = 2
  /\ runLog[1].event.id < runLog[2].event.id

\* C9: whenever a connection targets another, that one exists and targets
\* the first, in every state that connect, disconnect, unplug (healing or
\* not), dispose and removeInput lead to.
C9_TargetsSymmetric ==
  \A c \in ConnIds :
    (conns[c].exists /\ conns[c].targetConnection # NoConn)
      => /\ conns[conns[c].targetConnection].exists
         /\ conns[conns[c].targetConnection].targetConnection = c

\* The middle block of a stack of three has been unplugged with healing:
\* it stands alone, and the other two are attached to each other.
C9_Witness ==
  /\ op[1] = "unplug" /\ op[2]
  /\ thrown = NoErr
  /\ \E b \in Live, p \in Live, n \in Live :
       /\ conns[<<b, "previous">>].exists /\ conns[<<b, "next">>].exists
       /\ conns[<<b, "previous">>].targetConnection = NoConn
       /\ conns[<<b, "next">>].targetConnection = NoConn
       /\ p # b /\ n # b
       /\ conns[<<p, "next">>].exists
       /\ conns[<<p, "next">>].targetConnection = <<n, "previous">>

\* C10: no block has an output connection and a previous connection at
\* once; setOutput(true) on a block that has a previous connection fails,
\* and so does setPreviousStatement(true) on a block that has an output
\* connection.
C10_OutputOrPrevious ==
  /\ \A b \in BlockIds :
       ~(conns[<<b, "output">>].exists /\ conns[<<b, "previous">>].exists)
  /\ (op[1] = "setOutput" /\ op[3] /\ conns[<<op[2], "previous">>].exists)
       => thrown = "Remove previous connection prior to adding output connection."
  /\ (op[1] = "setPreviousStatement" /\ op[3] /\ conns[<<op[2], "output">>].exists)
       => thrown = "Remove output connection prior to adding previous connection."

\* setOutput(true) has failed on a block that has a previous connection,
\* which it had got after its output connection was removed.
C10_Witness ==
  /\ op[1] = "setOutput" /\ op[3]
  /\ thrown = "Remove previous connection prior to adding output connection."
  /\ blocks[op[2]].type = "print"
  /\ conns[<<op[2], "previous">>].exists
  /\ ~conns[<<op[2], "output">>].exists

\* C11 (as stated): every block has exactly one of an output connection and
\* a previous connection.
C11_ExactlyOneOfOutputPrevious ==
  \A b \in Live :
    conns[<<b, "output">>].exists # conns[<<b, "previous">>].exists

\* C11 (amended): every block, in the workspace or disposed of, has at most
\* one of an output connection and a previous connection; it has neither
\* once setOutput(false) or setPreviousStatement(false) has removed the one
\* it had.
C11_AtMostOneOfOutputPrevious ==
  /\ \A b \in Made :
       Cardinality({x \in {"output", "previous"} : conns[<<b, x>>].exists}) <= 1
  /\ (op[1] = "setOutput" /\ ~op[3] /\ thrown = NoErr)
       => ~conns[<<op[2], "output">>].exists
  /\ (op[1] = "setPreviousStatement" /\ ~op[3] /\ thrown = NoErr)
       => ~conns[<<op[2], "previous">>].exists

\* setPreviousStatement(false) has left a statement block with neither
\* connection, beside a block that has its output connection.
C11_Witness ==
  /\ op[1] = "setPreviousStatement" /\ ~op[3]
  /\ thrown = NoErr
  /\ blocks[op[2]].type = "stmt"
  /\ ~conns[<<op[2], "previous">>].exists
  /\ ~conns[<<op[2], "output">>].exists
  /\ \E b \in Live : conns[<<b, "output">>].exists

\* Whether the output or previous connection of block c is attached to a
\* connection of block p.
AttachedBelow(c, p) ==
  /\ ParentConnection(Cur, c) # NoConn
  /\ ParentConnection(Cur, c)[1] = p

RECURSIVE Climb(_, _)
Climb(b, n) ==
  IF b = NoBlock \/ n = 0 THEN b ELSE Climb(blocks[b].parentBlock_, n - 1)

\* C13 (as stated): the parent relation has no cycle, and no block is in
\* the child list of two blocks, whatever newBlock, connect, disconnect,
\* unplug, setParent and dispose are called.
C13_Forest ==
  /\ \A b \in BlockIds : Climb(b, Cardinality(BlockIds) + 1) = NoBlock
  /\ \A p \in BlockIds, q \in BlockIds :
       p # q => Range(blocks[p].childBlocks_) \cap Range(blocks[q].childBlocks_) = {}

\* C14: the two connections of every attached pair are of opposite kinds
\* and pass the type check (their check lists intersect, or one of them is
\* null), in every state that connect, unplug (healing or not) and
\* setOutput, setPreviousStatement and setNextStatement with a new check
\* list lead to.
C14_AttachedPairsCompatible ==
  \A c \in ConnIds :
    isConnected(Cur, c)
      => /\ checkType_(Cur, c, conns[c].targetConnection)
         /\ conns[conns[c].targetConnection].type = OppositeType(conns[c].type)

\* setPreviousStatement(true, ['B']) was called on the first block created,
\* which is the last top block now; its previous connection takes 'B' and
\* is not attached, and the next connection of another block takes 'A'
\* and is not attached.
C14_Witness ==
  /\ op[1] = "setPreviousStatement" /\ op[2] = 1
  /\ thrown = NoErr
  /\ Len(topBlocks_) >= 2 /\ Last(topBlocks_) = 1
  /\ conns[<<1, "previous">>].check_ = {"B"}
  /\ conns[<<1, "previous">>].targetConnection = NoConn
  /\ \E p \in Live \ {1} :
       /\ conns[<<p, "next">>].exists
       /\ conns[<<p, "next">>].check_ = {"A"}
       /\ conns[<<p, "next">>].targetConnection = NoConn
       /\ \A q \in Live : blocks[q].parentBlock_ = NoBlock

\* C15: dispose(healStack) on a block that is disposed of already (an object
\* that was constructed and is no longer in the registry) returns
\* without an exception, tells no listener of any event, and leaves the
\* registry, the top blocks, every block and every connection as they were.
C15_DisposeIdempotent ==
  \A b \in Made \ blockDB_, healStack \in BOOLEAN :
    dispose(Cur, b, healStack) = Cur

\* With events enabled and a listener registered, a dispose has told the
\* listener nothing: it was called on a block disposed of before, beside
\* two blocks that are attached to each other.
C15_Witness ==
  /\ op[1] = "dispose"
  /\ thrown = NoErr
  /\ heard = <<>>
  /\ listeners_ = <<"observer">>
  /\ Events_disabled = 0
  /\ Made \ blockDB_ # {}
  /\ \E p \in blockDB_, c \in blockDB_ : blocks[c].parentBlock_ = p

\* The ids of the blocks a Create or Delete event keeps: the block and the
\* blocks below it when the event was constructed.
SnapshotIds(e) == {e.snapshot[i].id : i \in 1..Len(e.snapshot)}

\* C16: a dispose that a listener hears of ends without an exception and in
\* this order: the block is unplugged (the Move events come first, and the
\* block is a top block when Delete is delivered); the Delete event is fired
\* while the block and the blocks below it are still registered; the blocks
\* below are disposed of, unreported; the inputs and the connections of the
\* block are disposed of, none of them still attached.
C16_DisposeOrder ==
  (op[1] = "dispose" /\ heard # <<>>)
    => /\ thrown = NoErr
       /\ Last(heard).event.type = "delete"
       /\ \A k \in 1..(Len(heard) - 1) : heard[k].event.type = "move"
       /\ Last(heard).event.blockId \in Last(heard).tops
       /\ SnapshotIds(Last(heard).event) \subseteq Last(heard).live
       /\ \A d \in SnapshotIds(Last(heard).event) :
            /\ d \notin blockDB_
            /\ blocks[d].inputList = <<>>
            /\ \A x \in Slots : ~conns[<<d, x>>].exists
       /\ \A c \in LiveConns :
            conns[c].targetConnection # NoConn
              => conns[c].targetConnection[1] \notin SnapshotIds(Last(heard).event)

\* A block with a value block in its input, attached below another block,
\* has been disposed of: the listener heard its Move, then its Delete with
\* the two blocks in it.
C16_Witness ==
  /\ op[1] = "dispose"
  /\ thrown = NoErr
  /\ Len(heard) = 2
  /\ heard[1].event.type = "move"
  /\ heard[2].event.type = "delete"
  /\ heard[1].event.blockId = heard[2].event.blockId
  /\ Cardinality(SnapshotIds(heard[2].event)) = 2
  /\ Cardinality(blockDB_) = 1

\* C17 (as stated): the Delete event of a dispose is fired last, when the
\* blocks below are disposed of and the block is out of the registry and of
\* the top blocks.
C17_DeleteFiredLast ==
  (op[1] = "dispose" /\ heard # <<>>)
    => \A k \in 1..Len(heard) :
         heard[k].event.type = "delete"
           => /\ SnapshotIds(heard[k].event) \cap heard[k].live = {}
              /\ heard[k].event.blockId \notin heard[k].tops

\* C17 (amended): the Delete event of a dispose is fired first, after the
\* unplug: when it is delivered the block is registered and a top block, and
\* the blocks below it are registered and still attached; the block leaves
\* the registry and the top blocks, and the blocks below are disposed of,
\* after that.
C17_DeleteFiredBeforeTeardown ==
  (op[1] = "dispose" /\ heard # <<>>)
    => /\ Cardinality({k \in 1..Len(heard) : heard[k].event.type = "delete"}) = 1
       /\ \A k \in 1..Len(heard) :
            heard[k].event.type = "delete"
              => /\ heard[k].event.blockId \in heard[k].live \cap heard[k].tops
                 /\ \A i \in 2..Len(heard[k].event.snapshot) :
                      /\ heard[k].event.snapshot[i].id \in heard[k].live
                      /\ heard[k].event.snapshot[i].id \notin heard[k].tops
                      /\ heard[k].event.snapshot[i].parent # NoConn
                 /\ SnapshotIds(heard[k].event) \cap (blockDB_ \cup Range(topBlocks_)) = {}

\* A stack of three blocks has been disposed of from its first block: the
\* listener heard one Delete event with the three blocks in it, and no block
\* is left.
C17_Witness ==
  /\ op[1] = "dispose"
  /\ thrown = NoErr
  /\ Len(heard) = 1
  /\ heard[1].event.type = "delete"
  /\ Len(heard[1].event.snapshot) = 3
  /\ heard[1].live = SnapshotIds(heard[1].event)
  /\ blockDB_ = {}
  /\ topBlocks_ = <<>>

\* C18: a block that is disposed of (its workspace is null) is referred to
\* by nothing that survives: getBlockById does not find it, it is not a top
\* block, no registered block has it as its parent or in its child list,
\* and no connection of a registered block targets one of its connections.
\* The blocks below a disposed block are disposed of with it.
C18_NoDanglingReference ==
  \A d \in Made :
    ~blocks[d].workspace
      => /\ getBlockById(Cur, d) = NoBlock
         /\ d \notin Range(topBlocks_)
         /\ Range(blocks[d].childBlocks_) \cap blockDB_ = {}
         /\ \A b \in blockDB_ :
              /\ blocks[b].parentBlock_ # d
              /\ d \notin Range(blocks[b].childBlocks_)
         /\ \A c \in ConnIds :
              (c[1] \in blockDB_ /\ conns[c].exists /\ conns[c].targetConnection # NoConn)
                => conns[c].targetConnection[1] # d

\* A dispose has returned, two blocks are disposed of, and the one block
\* left is an input block that is the only top block, with nothing attached.
C18_Witness ==
  /\ op[1] = "dispose"
  /\ thrown = NoErr
  /\ Cardinality(Made \ blockDB_) = 2
  /\ \E a \in blockDB_ :
       /\ blockDB_ = {a}
       /\ blocks[a].type = "if"
       /\ topBlocks_ = <<a>>
       /\ blocks[a].childBlocks_ = <<>>
       /\ \A x \in Slots : conns[<<a, x>>].targetConnection = NoConn

\* The blocks whose previous connection is attached to another block and
\* that have a next block.
MidStack ==
  {b \in Live : /\ isConnected(Cur, <<b, "previous">>)
                /\ getNextBlock(Cur, b) # NoBlock
                /\ targetBlock(Cur, <<b, "previous">>) # b}

\* C19: unplug(true) on a block with an attached predecessor and a next
\* block raises no error and detaches the block at both ends; it attaches
\* the connection that held the block to the previous connection of the
\* next block exactly when the two pass the type check, and otherwise
\* leaves both unattached, the next block being a top block without parent.
C19_HealIffCompatible ==
  \A b \in MidStack :
    LET previousTarget == conns[<<b, "previous">>].targetConnection
        nextTarget == conns[<<b, "next">>].targetConnection
        after == unplug(Cur, b, TRUE)
    IN /\ after.err = NoErr
       /\ after.conns[<<b, "previous">>].targetConnection = NoConn
       /\ after.conns[<<b, "next">>].targetConnection = NoConn
       /\ IF checkType_(Cur, previousTarget, nextTarget)
            THEN /\ after.conns[previousTarget].targetConnection = nextTarget
                 /\ after.conns[nextTarget].targetConnection = previousTarget
                 /\ after.blocks[nextTarget[1]].parentBlock_ = previousTarget[1]
            ELSE /\ after.conns[previousTarget].targetConnection = NoConn
                 /\ after.conns[nextTarget].targetConnection = NoConn
                 /\ after.blocks[nextTarget[1]].parentBlock_ = NoBlock
                 /\ nextTarget[1] \in Range(after.topBlocks_)

\* A block stands between a next connection that takes 'A' and a previous
\* connection that takes 'B', in a stack of three blocks; unplug(true)
\* leaves the three as top blocks, and raises no error.
C19_Witness ==
  \E b \in MidStack :
    /\ conns[conns[<<b, "previous">>].targetConnection].check_ = {"A"}
    /\ conns[conns[<<b, "next">>].targetConnection].check_ = {"B"}
    /\ conns[<<b, "previous">>].targetConnection[1] # conns[<<b, "next">>].targetConnection[1]
    /\ unplug(Cur, b, TRUE).err = NoErr
    /\ Len(unplug(Cur, b, TRUE).topBlocks_) = 3
    /\ op[1] = "unplug"

\* The pairs <<a, name, b>>: the output connection of block b is attached
\* to the connection of the value input called name of block a.
ValuePairs ==
  {<<a, name, b>> \in Live \X {"IF0", "COND"} \X Live :
     /\ getInput(Cur, a, name) # 0
     /\ blocks[a].inputList[getInput(Cur, a, name)].type = INPUT_VALUE
     /\ conns[<<b, "output">>].exists
     /\ conns[<<b, "output">>].targetConnection
          = <<a, blocks[a].inputList[getInput(Cur, a, name)].slot>>}

\* C20: when the output connection of block b is attached to a value input
\* of block a, a.getInputTargetBlock(name) is b and b is not a top block;
\* after b.unplug() the connection of the input has no target,
\* a.getInputTargetBlock(name) is null, b has no parent and is a top block.
C20_UnplugFromInput ==
  \A v \in ValuePairs :
    LET a == v[1]
        name == v[2]
        b == v[3]
        after == unplug(Cur, b, FALSE)
    IN /\ getInputTargetBlock(Cur, a, name) = b
       /\ b \notin Range(topBlocks_)
       /\ after.err = NoErr
       /\ after.conns[<<a, blocks[a].inputList[getInput(Cur, a, name)].slot>>]
            .targetConnection = NoConn
       /\ getInputTargetBlock(after, a, name) = NoBlock
       /\ after.blocks[b].parentBlock_ = NoBlock
       /\ b \in Range(after.topBlocks_)

\* A "print" block has just been connected into the input IF0 of an "if"
\* block, and unplug brings it back among the top blocks.
C20_Witness ==
  /\ op[1] = "connect"
  /\ thrown = NoErr
  /\ \E v \in ValuePairs :
       /\ blocks[v[1]].type = "if" /\ v[2] = "IF0" /\ blocks[v[3]].type = "print"
       /\ topBlocks_ = <<v[1]>>
       /\ unplug(Cur, v[3], FALSE).topBlocks_ = <<v[1], v[3]>>


\* C21: block.setParent(newParent), with newParent not the parent the block
\* has, ends with an exception whenever the previous or the output
\* connection of the block is attached; with newParent the parent the block
\* has, it changes nothing and throws nothing.
C21_SetParentFailsWhileAttached ==
  \A b \in Live, newParent \in Live \cup {NoBlock} :
    IF newParent = blocks[b].parentBlock_
      THEN setParent(Cur, b, newParent) = Cur
      ELSE ParentConnection(Cur, b) # NoConn
           => setParent(Cur, b, newParent).err # NoErr

\* setParent was called on a block whose previous connection is attached,
\* with another parent than the one it has, and has thrown.
C21_Witness ==
  /\ op[1] = "setParent"
  /\ op[3] # blocks[op[2]].parentBlock_
  /\ ParentConnection(Cur, op[2]) # NoConn
  /\ thrown = "Still connected to previous block."


LiveIds == blockDB_
OtherLiveIds == otherWorkspace.blockDB_

\* C23: no block of one workspace has the id of a block of the other (within
\* one workspace the registry holds one block per id), and newBlock with a
\* requested id that is registered already leaves the registered block in
\* place and registers the new block under another id.
C23_IdsGloballyUnique ==
  [][/\ LiveIds' \cap OtherLiveIds' = {}
     /\ (op'[1] = "newBlock" /\ op'[3] \in LiveIds /\ thrown' = NoErr)
          => /\ LiveIds \subseteq LiveIds'
             /\ Cardinality(LiveIds') = Cardinality(LiveIds) + 1
             /\ blocks'[op'[3]] = blocks[op'[3]]]_vars


\* The blocks form a well-formed forest: climbing the parents from any block
\* ends, and a block is in the child list of its parent, once, and in no other.
WellFormedForest ==
  /\ \A b \in BlockIds : Climb(b, Cardinality(BlockIds) + 1) = NoBlock
  /\ \A p \in BlockIds :
       /\ \A c \in BlockIds :
            (c \in Range(blocks[p].childBlocks_)) <=> (blocks[c].parentBlock_ = p)
       /\ Cardinality(Range(blocks[p].childBlocks_)) = Len(blocks[p].childBlocks_)

\* The blocks from which climbing the parents passes b: b and the blocks below it.
Subtree(b) == {x \in BlockIds : \E n \in 0..Cardinality(BlockIds) : Climb(x, n) = b}

\* The place of x in the array q.
IndexOf(q, x) == Min({i \in 1..Len(q) : q[i] = x})

\* C24: in a well-formed forest getDescendants() of a block returns; the
\* block comes first; the array holds the blocks of the subtree and no other,
\* each once; the subtree of every block of the array follows that block
\* without a gap; and the children of a block come in the order of its child
\* list (which together is the depth-first pre-order).
C24_DescendantsInPreOrder ==
  WellFormedForest =>
    \A b \in Live :
      LET r == getDescendants(Cur, b)
          q == r.blocks
      IN /\ r.err = NoErr
         /\ q[1] = b
         /\ Range(q) = Subtree(b)
         /\ Len(q) = Cardinality(Subtree(b))
         /\ \A x \in Range(q) :
              /\ {q[i] : i \in IndexOf(q, x)..(IndexOf(q, x) + Cardinality(Subtree(x)) - 1)}
                   = Subtree(x)
              /\ \A i \in 1..Len(blocks[x].childBlocks_), j \in 1..Len(blocks[x].childBlocks_) :
                   i < j => IndexOf(q, blocks[x].childBlocks_[i])
                              < IndexOf(q, blocks[x].childBlocks_[j])

\* A block has two children, the later created one first in its child list,
\* and getDescendants() returns the block and then the two in that order.
C24_Witness ==
  /\ WellFormedForest
  /\ \E b \in Live :
       /\ Len(blocks[b].childBlocks_) = 2
       /\ blocks[b].childBlocks_[1] > blocks[b].childBlocks_[2]
       /\ getDescendants(Cur, b).blocks = <<b>> \o blocks[b].childBlocks_


\* C25: getDescendants() of a block returns, and the array it returns holds
\* no block twice, also where the child lists have a cycle or hold a block
\* twice.
C25_DescendantsTerminates ==
  \A b \in Live :
    /\ getDescendants(Cur, b).err = NoErr
    /\ Cardinality(Range(getDescendants(Cur, b).blocks))
         = Len(getDescendants(Cur, b).blocks)


\* C26: a dragBlock step between startBlockDrag and endBlockDrag changes no
\* connection, no parent, no child list, not the list of top blocks and not
\* the registry, whatever candidate the connection manager previews.
C26_DragBlockLeavesGraph ==
  [][op'[1] = "dragBlock"
       => UNCHANGED <<blocks, conns, blockDB_, topBlocks_>>]_vars

\* A block that was unplugged when its drag began (the unplugging is on the
\* log) is dragged near a free connection of another block, and the manager
\* previews that pair; the dragged block is still detached.
C26_Witness ==
  /\ op[1] = "dragBlock"
  /\ dragger.draggingBlock_ # NoBlock
  /\ dragger.closest # NoCandidate
  /\ dragger.base < Len(undoStack_)
  /\ ParentConnection(Cur, dragger.draggingBlock_) = NoConn
  /\ ~isConnected(Cur, dragger.closest[2])


\* C27: endBlockDrag decides by the candidate and the deletion zone of the
\* pointer event it is called with, not by those of an earlier dragBlock, and
\* does one of two things.  Over a deletion zone with no candidate the dragged
\* block is disposed of, with the blocks below it, and no connection of
\* another block changes.
\* Otherwise the block stays registered; with a candidate the previewed pair
\* is joined, without one no connection changes.  It throws nothing.
C27_DeleteOrReconnect ==
  [][op'[1] = "endBlockDrag"
       => LET deleteArea == op'[2]
              nearest == op'[3]
              b == op'[4]
          IN /\ thrown' = NoErr
             /\ IF deleteArea # DELETE_AREA_NONE /\ nearest = NoCandidate
                  THEN /\ blockDB_' = blockDB_ \ Subtree(b)
                       /\ \A c \in ConnIds : c[1] \notin Subtree(b) => conns'[c] = conns[c]
                ELSE /\ b \in blockDB_'
                     /\ blockDB_' = blockDB_
                     /\ IF nearest # NoCandidate
                          THEN /\ conns'[nearest[1]].targetConnection = nearest[2]
                               /\ conns'[nearest[2]].targetConnection = nearest[1]
                          ELSE conns' = conns]_vars

\* A drag has ended over the trash can, near a candidate: the block is
\* registered and attached to the candidate, and the delete flag is off.
C27_Witness ==
  /\ op[1] = "endBlockDrag"
  /\ op[2] = DELETE_AREA_TRASH
  /\ op[3] # NoCandidate
  /\ op[4] \in blockDB_
  /\ conns[op[3][1]].targetConnection = op[3][2]
  /\ ~dragger.wouldDeleteBlock_


\* The events recorded since the drag began.
DragEvents == SubSeq(undoStack_, dragger.base + 1, Len(undoStack_))

\* C28: while a block is dragged, and when endBlockDrag has returned, the
\* events recorded since startBlockDrag was called (the Moves of the
\* unplugging, the Moves of the drop, the Delete) all carry one group, which
\* is not empty and, during the drag, is the current group; after
\* endBlockDrag one undo(false) takes them all off the undo stack, throws
\* nothing, and leaves the registered ids and the connections as they were
\* when the drag began.
C28_OneGroupPerDrag ==
  (dragger.draggingBlock_ # NoBlock \/ op[1] = "endBlockDrag")
    => /\ \A i \in 1..Len(DragEvents) :
            /\ DragEvents[i].group # NoGroup
            /\ DragEvents[i].group = DragEvents[1].group
            /\ dragger.draggingBlock_ # NoBlock => DragEvents[i].group = Events_group
       /\ dragger.draggingBlock_ # NoBlock => Events_group # NoGroup
       /\ (op[1] = "endBlockDrag" /\ DragEvents # <<>>)
            => /\ undo(Cur, FALSE).err = NoErr
               /\ Len(undo(Cur, FALSE).undoStack_) <= dragger.base
               /\ undo(Cur, FALSE).blockDB_ = dragger.before.blockDB_
               /\ \A c \in ConnIds :
                    c[1] \in dragger.before.blockDB_
                      => undo(Cur, FALSE).conns[c] = dragger.before.conns[c]


\* A drag that unplugged the block and dropped it on the deletion zone has
\* returned: the undo stack holds the Move of the unplugging, the Move of
\* the drop and the Delete, recorded since the drag began.
C28_Witness ==
  /\ op[1] = "endBlockDrag"
  /\ Len(DragEvents) >= 3
  /\ DragEvents[1].type = "move"
  /\ DragEvents[Len(DragEvents)].type = "delete"
  /\ dragger.before.blockDB_ # blockDB_


\* C29: a call of appendValueInput, appendStatementInput or appendDummyInput
\* with a name that an input of the block already has throws and leaves the
\* input list of the block as it was.
C29_DuplicateInputNameRejected ==
  [][(/\ op'[1] \in {"appendValueInput", "appendStatementInput", "appendDummyInput"}
      /\ \E i \in 1..Len(blocks[op'[2]].inputList) :
           blocks[op'[2]].inputList[i].name = op'[3])
       => /\ thrown' # NoErr
          /\ blocks'[op'[2]].inputList = blocks[op'[2]].inputList]_vars


\* The calls of the listener that sets a comment text with a Create event,
\* among the calls of the last step.
NestedCalls ==
  {k \in 1..Len(heard) : heard[k].func = Annotator /\ heard[k].event.type = "create"}

\* C30: when newBlock has fired a Create event E and the listener that sets
\* a comment text, told of E, has caused the Change event F: E was on the
\* undo stack when the listener was called; E is below F on the undo stack,
\* with the group it had when it was delivered; F has the group that was
\* current when the listener was called; every listener called during the
\* step, before and after the nested delivery, found that same group
\* current; and the group current after newBlock is the group that was
\* current before it.
C30_NestedFireKeepsGroups ==
  [][(op'[1] = "newBlock" /\ NestedCalls' # {})
       => /\ Events_group' = Events_group
          /\ \A k \in NestedCalls' :
               LET E == heard'[k].event
                   g == heard'[k].group
               IN /\ \A n \in 1..Len(heard') : heard'[n].group = g
                  /\ E.recordUndo
                       => /\ heard'[k].recorded
                          /\ \E i \in 1..Len(undoStack_'), j \in 1..Len(undoStack_') :
                               /\ i < j
                               /\ undoStack_'[i] = E
                               /\ undoStack_'[j].type = "change"
                               /\ undoStack_'[j].blockId = E.blockId
                               /\ undoStack_'[j].newValue = "seen"
                               /\ undoStack_'[j].group = g]_vars

\* newBlock has returned with the listener that sets a comment text
\* registered before an observer: four calls were made (the Change event was
\* delivered to both listeners before the observer was told of the Create
\* event), and the undo stack ends with the Create event and the Change
\* event of the new block, in one group.
C30_Witness ==
  /\ op[1] = "newBlock"
  /\ listeners_ = <<Annotator, "observer">>
  /\ Len(heard) = 4
  /\ heard[3].func = "observer" /\ heard[3].event.type = "change"
  /\ heard[4].func = "observer" /\ heard[4].event.type = "create"
  /\ Len(undoStack_) >= 2
  /\ undoStack_[Len(undoStack_) - 1].type = "create"
  /\ undoStack_[Len(undoStack_)].type = "change"
  /\ undoStack_[Len(undoStack_)].group = undoStack_[Len(undoStack_) - 1].group
  /\ undoStack_[Len(undoStack_)].group # NoGroup


\* C31: getAllBlocks() returns, and the array it returns holds the blocks
\* of the registry and no other, each once.
C31_AllBlocksIsTheRegistry ==
  LET r == getAllBlocks(Cur)
  IN /\ r.err = NoErr
     /\ Range(r.blocks) = blockDB_
     /\ Len(r.blocks) = Cardinality(blockDB_)


\* C32: unplug(false) on a statement block whose previous connection is
\* free or attached to another block throws nothing, clears the target of
\* its previous connection and the target of the connection that one was
\* attached to, and changes no other connection; the block has no parent
\* afterwards and keeps its child list (its next block and the blocks in
\* its inputs), no other block changes its parent, and no block is
\* deregistered.
C32_UnplugDetachesOnlyPrevious ==
  \A b \in Live :
    (/\ conns[<<b, "previous">>].exists /\ ~conns[<<b, "output">>].exists
     /\ targetBlock(Cur, <<b, "previous">>) # b)
      => LET after == unplug(Cur, b, FALSE)
             previousTarget == conns[<<b, "previous">>].targetConnection
         IN /\ after.err = NoErr
            /\ after.conns[<<b, "previous">>].targetConnection = NoConn
            /\ previousTarget # NoConn => after.conns[previousTarget].targetConnection = NoConn
            /\ \A c \in ConnIds \ {<<b, "previous">>, previousTarget} :
                 after.conns[c] = conns[c]
            /\ after.blocks[b].childBlocks_ = blocks[b].childBlocks_
            /\ after.blocks[b].parentBlock_ = NoBlock
            /\ \A x \in BlockIds \ {b} : after.blocks[x].parentBlock_ = blocks[x].parentBlock_
            /\ after.blockDB_ = blockDB_

\* An "if" block stands below another block, with a block in its input and
\* a third block as its next block (or two blocks and the block above):
\* unplug(false) makes it a top block that still has its two children.
C32_Witness ==
  \E b \in MidStack :
    /\ blocks[b].type = "if"
    /\ Len(blocks[b].childBlocks_) >= 1
    /\ unplug(Cur, b, FALSE).topBlocks_ = Append(topBlocks_, b)
    /\ unplug(Cur, b, FALSE).blocks[b].childBlocks_ = blocks[b].childBlocks_
    /\ unplug(Cur, b, FALSE).conns[conns[<<b, "previous">>].targetConnection]
         .targetConnection = NoConn


\* C33: in a well-formed forest, dispose(true) on a block that has a
\* previous connection and a next block throws nothing and deregisters the
\* block and the blocks in its inputs with all that is below them, and no
\* other block: the next block and the blocks below it stay registered.
\* The next block ends attached to the connection that held the disposed
\* block when there was one and the two pass the type check; otherwise it
\* ends without parent, among the top blocks, and the connection that held
\* the disposed block, if any, is left empty.
C33_DisposeHealingSparesTheStack ==
  WellFormedForest =>
    \A b \in Live :
      (conns[<<b, "previous">>].exists /\ getNextBlock(Cur, b) # NoBlock)
        => LET after == dispose(Cur, b, TRUE)
               nextBlock == getNextBlock(Cur, b)
               nextTarget == <<nextBlock, "previous">>
               previousTarget == conns[<<b, "previous">>].targetConnection
           IN /\ after.err = NoErr
              /\ after.blockDB_ = blockDB_ \ (Subtree(b) \ Subtree(nextBlock))
              /\ \A x \in Subtree(nextBlock) \ {nextBlock} :
                   /\ after.blocks[x] = blocks[x]
                   /\ \A c \in ConnIds : c[1] = x => after.conns[c] = conns[c]
              /\ after.blocks[nextBlock].childBlocks_ = blocks[nextBlock].childBlocks_
              /\ IF previousTarget # NoConn /\ checkType_(Cur, previousTarget, nextTarget)
                   THEN /\ after.conns[previousTarget].targetConnection = nextTarget
                        /\ after.conns[nextTarget].targetConnection = previousTarget
                        /\ after.blocks[nextBlock].parentBlock_ = previousTarget[1]
                        /\ nextBlock \notin Range(after.topBlocks_)
                   ELSE /\ after.conns[nextTarget].targetConnection = NoConn
                        /\ after.blocks[nextBlock].parentBlock_ = NoBlock
                        /\ nextBlock \in Range(after.topBlocks_)
                        /\ previousTarget # NoConn
                             => after.conns[previousTarget].targetConnection = NoConn

\* An input block stands between two blocks whose connections do not take
\* each other, and dispose(true) on it leaves those two registered, apart,
\* both among the top blocks.
C33_Witness ==
  /\ WellFormedForest
  /\ \E b \in MidStack :
       LET above == conns[<<b, "previous">>].targetConnection
           below == getNextBlock(Cur, b)
       IN /\ blocks[b].type = "if"
          /\ blocks[above[1]].type = "typed" /\ blocks[below].type = "typed"
          /\ ~checkType_(Cur, above, <<below, "previous">>)
          /\ dispose(Cur, b, TRUE).blockDB_ = {above[1], below}
          /\ dispose(Cur, b, TRUE).topBlocks_ = <<above[1], below>>
          /\ dispose(Cur, b, TRUE).conns[above].targetConnection = NoConn


\* The events clear() would record, called in the current state.
ClearEvents ==
  SubSeq(clear(Cur).undoStack_, Len(undoStack_) + 1, Len(clear(Cur).undoStack_))

\* C34: clear() returns without an exception, and then no block is a top
\* block and none is registered; the events it records are Delete events of
\* one group, which is not empty; and the current group is the group that
\* was current before the call.
C34_ClearEmptiesTheWorkspace ==
  /\ clear(Cur).err = NoErr
  /\ clear(Cur).topBlocks_ = <<>>
  /\ clear(Cur).blockDB_ = {}
  /\ clear(Cur).group_ = Events_group
  /\ \A i \in 1..Len(ClearEvents) :
       /\ ClearEvents[i].type = "delete"
       /\ ClearEvents[i].group # NoGroup
       /\ ClearEvents[i].group = ClearEvents[1].group


\* The events the listeners are told of during a call that leaves the
\* program state s, one for each listener call.
HeardEvents(s) == [k \in 1..Len(s.heard) |-> s.heard[k].event]

\* C35: dispose(false) on a registered block leaves the count of
\* Blockly.Events.disable() calls as it was, whether it returns or throws.
\* When getDescendants() of the block returns, dispose(false) throws
\* nothing; the block and its descendants, and no other block, are out of
\* the registry, none of them is a top block, and the workspace of each is
\* null; every event a listener is told of is a Move or the Delete of the
\* block itself, and each listener is told of one Delete when events are
\* enabled.
C35_DisposeReportsTheRootOnly ==
  \A b \in Live :
    LET after == dispose(Cur, b, FALSE)
        below == getDescendants(Cur, b)
        events == HeardEvents(after)
    IN /\ after.disabled_ = Events_disabled
       /\ below.err = NoErr
            => /\ after.err = NoErr
               /\ after.blockDB_ = blockDB_ \ Range(below.blocks)
               /\ Range(after.topBlocks_) \cap Range(below.blocks) = {}
               /\ \A x \in Range(below.blocks) : ~after.blocks[x].workspace
               /\ \A k \in 1..Len(events) :
                    /\ events[k].blockId = b
                    /\ events[k].type \in {"move", "delete"}
               /\ Cardinality({k \in 1..Len(events) : events[k].type = "delete"})
                    = IF Events_disabled = 0 THEN Len(listeners_) ELSE 0

\* With a listener registered, a block that stands below another block has
\* one block below it: dispose(false) deregisters the two, and the listener
\* is told of the Move and the Delete of the first and of nothing else.
C35_Witness ==
  /\ listeners_ = <<"observer">>
  /\ \E b \in Live :
       /\ blocks[b].parentBlock_ # NoBlock
       /\ blocks[b].parentBlock_ # b
       /\ Len(getDescendants(Cur, b).blocks) = 2
       /\ dispose(Cur, b, FALSE).err = NoErr
       /\ Cardinality(dispose(Cur, b, FALSE).blockDB_) = 1
       /\ Len(HeardEvents(dispose(Cur, b, FALSE))) = 2
       /\ HeardEvents(dispose(Cur, b, FALSE))[1].type = "move"
       /\ HeardEvents(dispose(Cur, b, FALSE))[2].type = "delete"


\* C36: when setParent throws because the previous or the output connection
\* of the block is attached, every block has the parent and the child list
\* it had before the call, and the top blocks are as they were.
C36_FailedSetParentChangesNothing ==
  \A b \in Live, newParent \in Live \cup {NoBlock} :
    setParent(Cur, b, newParent).err
        \in {"Still connected to previous block.", "Still connected to parent block."}
      => /\ setParent(Cur, b, newParent).blocks = blocks
         /\ setParent(Cur, b, newParent).topBlocks_ = topBlocks_


\* The events of the two stacks of program state s in the order they were
\* recorded in: the undo stack, then the redo stack from its top down.
Timeline(s) == s.undoStack_ \o Reverse(s.redoStack_)

\* The program state a caller goes on with after it has caught the
\* exception of a call.
Caught(s) == [s EXCEPT !.err = NoErr]

\* C37: undo(false) and undo(true) leave the events of the two stacks and
\* their order as they are, moving only the place where the undo stack ends
\* and the redo stack begins; and with an empty redo stack and events on
\* the undo stack, undo(false) followed at once by undo(true) leaves the
\* undo stack as it was and the redo stack empty.
C37_UndoRedoMovesEvents ==
  /\ \A redo \in BOOLEAN : Timeline(undo(Cur, redo)) = Timeline(Cur)
  /\ (redoStack_ = <<>> /\ undoStack_ # <<>>)
       => LET back == undo(Cur, FALSE)
              again == undo(Caught(back), TRUE)
          IN /\ Len(back.undoStack_) < Len(undoStack_)
             /\ again.undoStack_ = undoStack_
             /\ again.redoStack_ = <<>>

\* The redo stack is empty and the undo stack ends with two events of one
\* group above an older event: undo(false) moves the two, and undo(true)
\* brings them back in their order.
C37_Witness ==
  /\ redoStack_ = <<>>
  /\ Len(undoStack_) = 3
  /\ undoStack_[2].group = undoStack_[3].group
  /\ undoStack_[2].group # NoGroup
  /\ undoStack_[1].group # undoStack_[2].group
  /\ Len(undo(Cur, FALSE).redoStack_) = 2
  /\ undo(Cur, FALSE).redoStack_[1] = undoStack_[3]
  /\ undo(undo(Cur, FALSE), TRUE).undoStack_ = undoStack_


C39_FailedNewBlockChangesNothing ==
  [][op'[1] = "newBlock" /\ thrown' # NoErr
       => /\ blockDB_' = blockDB_
          /\ topBlocks_' = topBlocks_
          /\ undoStack_' = undoStack_
          /\ heard' = <<>>]_vars

\* C40: when no block is being dragged and an event group is open, a
\* gesture that starts dragging a block (startBlockDrag) and drops it
\* (endBlockDrag), wherever it drops it, leaves that group the current
\* group.
C40_DragKeepsTheCallersGroup ==
  Idle /\ Events_group # NoGroup
    => \A b \in Live, healStack \in BOOLEAN, moved \in BOOLEAN,
          deleteArea \in {DELETE_AREA_NONE, DELETE_AREA_TRASH} :
         LET started == startBlockDrag(BlockDragger(Cur, b), healStack)
         IN \A nearest \in Candidates(started, b) \cup {NoCandidate} :
              LET ended == endBlockDrag(started, deleteArea, nearest, moved)
              IN ended.err = NoErr => getGroup(ended) = Events_group

====
